---- MODULE Spec2Model ----
(***************************************************************************)
(* A model of dspp (AE9RB/dspp): the power-of-two FFT engines              *)
(* (FFT_Impl, after Ooura's fft4g, and the Radix4/BitReverse templates),   *)
(* their cached twiddle tables and bit-reversal plans, and the public      *)
(* dft wrappers.                                                           *)
(*                                                                         *)
(* The element type T is modelled by exact arithmetic in the ring          *)
(* Z[sqrt 2, sqrt 3][1/2]: the tuple <<p, q, r, s, e>> is the number       *)
(* (p + q*sqrt(2) + r*sqrt(3) + s*sqrt(6)) / 2^e, kept normalised so that  *)
(* equal numbers are equal tuples.  This ring holds every value a          *)
(* transform of at most 8 complex points produces from Gaussian-integer    *)
(* input, and the chirp of a 3-point transform, so those transforms are    *)
(* computed exactly.                                                       *)
(***************************************************************************)
EXTENDS Integers, Sequences, FiniteSets, TLC

VARIABLES
    it,      \* FFT_Impl::it    : the bit-reversal plans, one vector per log2(n)
    wt_n,    \* FFT_Impl::wt_n  : the recorded size of the cos/sin table
    wt,      \* FFT_Impl::wt    : the cos/sin table
    ct_n,    \* FFT_Impl::ct_n  : the recorded size of the cosine table
    ct,      \* FFT_Impl::ct    : the cosine table
    bufA,    \* the caller's first buffer (holds the input at the start)
    bufB,    \* the caller's second buffer (the target of out-of-place calls)
    cur,     \* which buffer holds the latest result: "A" or "B"
    x0,      \* history: the input as it was before the first call
    pre,     \* history: the source buffer as it was before the latest call
    calls,   \* history: the calls made so far, oldest first
    built,   \* history: what the latest call constructed (makewt, makect, getip)
    latest,  \* history: the latest call, on these buffers or on any other
    seen,    \* history: the <<fn, n>> of every call that has completed
    elem,    \* the element type of the first buffer: "complex" or "real"
    elemOut, \* the element type of the second buffer
    win,     \* a container handed to a window function, and the call made on it
    mixer,   \* a Mixer<T> object and the sample it returned last
    fmap,    \* an Fmap<T> object and the iteration running over it
    runner   \* the benchtest Runner: the tests, the results, the log

vars == <<it, wt_n, wt, ct_n, ct, bufA, bufB, cur, x0, pre, calls, built,
          latest, seen, elem, elemOut, win, mixer, fmap, runner>>

(* The variables of the transforms.                                        *)
fftvars == <<it, wt_n, wt, ct_n, ct, bufA, bufB, cur, x0, pre, calls, built,
             latest, seen, elem, elemOut>>

-----------------------------------------------------------------------------
(* The element type T, exactly.                                            *)

(* Every operator evaluates its arguments once, on entry, as a C++ call    *)
(* does: Only({e : x \in {v}}) is e with x bound to the value of v, and    *)
(* Let(v, LAMBDA x : e) is the same, for a local variable assigned once.   *)
Only(S) == CHOOSE y \in S : TRUE
Let(v_, F(_)) == Only({F(v) : v \in {v_}})

RECURSIVE Pow2(_)
Pow2(e_) ==
    Only({IF e <= 0 THEN 1 ELSE 2 * Pow2(e - 1) : e \in {e_}})

RECURSIVE Norm(_, _, _, _, _)
Norm(p_, q_, r_, s_, e_) == Only({(
    IF e > 0 /\ p % 2 = 0 /\ q % 2 = 0 /\ r % 2 = 0 /\ s % 2 = 0
    THEN Norm(p \div 2, q \div 2, r \div 2, s \div 2, e - 1)
    ELSE <<p, q, r, s, e>>
    ) : p \in {p_}, q \in {q_}, r \in {r_}, s \in {s_}, e \in {e_}})

RInt(k_) ==
    Only({<<k, 0, 0, 0, 0>> : k \in {k_}})
RZero == RInt(0)
ROne == RInt(1)
RHalf == <<1, 0, 0, 0, 1>>
RSqrtHalf == <<0, 1, 0, 0, 1>>
RSqrt3Half == <<0, 0, 1, 0, 1>>

RNeg(a_) ==
    Only({<<-a[1], -a[2], -a[3], -a[4], a[5]>> : a \in {a_}})

RAdd(a_, b_) == Only({(
    LET e == IF a[5] > b[5] THEN a[5] ELSE b[5]
        fa == Pow2(e - a[5])
        fb == Pow2(e - b[5])
    IN Norm(a[1] * fa + b[1] * fb, a[2] * fa + b[2] * fb,
            a[3] * fa + b[3] * fb, a[4] * fa + b[4] * fb, e)
    ) : a \in {a_}, b \in {b_}})

RSub(a_, b_) ==
    Only({RAdd(a, RNeg(b)) : a \in {a_}, b \in {b_}})

RMul(a_, b_) == Only({(
    Norm(a[1] * b[1] + 2 * a[2] * b[2] + 3 * a[3] * b[3] + 6 * a[4] * b[4],
         a[1] * b[2] + a[2] * b[1] + 3 * (a[3] * b[4] + a[4] * b[3]),
         a[1] * b[3] + a[3] * b[1] + 2 * (a[2] * b[4] + a[4] * b[2]),
         a[1] * b[4] + a[4] * b[1] + a[2] * b[3] + a[3] * b[2],
         a[5] + b[5])
    ) : a \in {a_}, b \in {b_}})

(* std::complex<T>: <<re, im>>.                                            *)
Cx(re_, im_) ==
    Only({<<re, im>> : re \in {re_}, im \in {im_}})
CZero == Cx(RZero, RZero)
CAdd(z_, w_) ==
    Only({Cx(RAdd(z[1], w[1]), RAdd(z[2], w[2])) : z \in {z_}, w \in {w_}})
CSub(z_, w_) ==
    Only({Cx(RSub(z[1], w[1]), RSub(z[2], w[2])) : z \in {z_}, w \in {w_}})
CScale(k_, z_) ==
    Only({Cx(RMul(RInt(k), z[1]), RMul(RInt(k), z[2])) : k \in {k_}, z \in {z_}})

(* mul(z, w): the limited-range product of the library.                    *)
mul_conjugating(z_, w_) ==
    Cx(RAdd(RMul(z_[1], w_[1]), RMul(z_[2], w_[2])),
       RSub(RMul(z_[1], w_[2]), RMul(z_[2], w_[1])))

mul(z_, w_) == Only({(
    Cx(RSub(RMul(z[1], w[1]), RMul(z[2], w[2])),
       RAdd(RMul(z[2], w[1]), RMul(z[1], w[2])))
    ) : z \in {z_}, w \in {w_}})

-----------------------------------------------------------------------------
(* std::vector / arrays, indexed from 0 as in the source.                  *)

Size(v_) ==
    Only({Cardinality(DOMAIN v) : v \in {v_}})
EmptyVec == [i \in {} |-> 0]
PushBack(v_, x_) ==
    Only({[i \in 0..Size(v) |-> IF i < Size(v) THEN v[i] ELSE x] : v \in {v_}, x \in {x_}})
Resize(v_, n_, fill_) ==
    Only({[i \in 0..(n - 1) |-> IF i < Size(v) THEN v[i] ELSE fill] : v \in {v_}, n \in {n_}, fill \in {fill_}})

(* The wrappers' cast of complex<T>[N] to T[2N]: re, im interleaved.       *)
AsReals(z_) ==
    Only({[i \in 0..(2 * Size(z) - 1) |-> z[i \div 2][(i % 2) + 1]] : z \in {z_}})
AsComplex(a_) ==
    Only({[i \in 0..((Size(a) \div 2) - 1) |-> Cx(a[2 * i], a[2 * i + 1])] : a \in {a_}})

-----------------------------------------------------------------------------
(* cos and sin of a table angle.  Every table angle of FFT_Impl is         *)
(* atan(1.0) * num / den.  The angles 0 and atan(1) have values in the     *)
(* ring; any other angle is kept as the 4-tuple <<fn, num, den, h>> in     *)
(* lowest terms (fn 1 = cos, 2 = sin; h = 1 when multiplied by 0.5), so    *)
(* that two table entries are equal exactly when the program computes      *)
(* them from the same angle.  den is a power of two in every caller, so    *)
(* the scaling by den is exact in binary floating point as well.           *)

RECURSIVE Gcd(_, _)
Gcd(a_, b_) ==
    Only({IF b = 0 THEN a ELSE Gcd(b, a % b) : a \in {a_}, b \in {b_}})

Sym(fn_, num_, den_) ==
    Only({<<fn, num \div Gcd(num, den), den \div Gcd(num, den), 0>> : fn \in {fn_}, num \in {num_}, den \in {den_}})
IsSym(x_) ==
    Only({Len(x) = 4 : x \in {x_}})

cos(num_, den_) == Only({(
    IF num = 0 THEN ROne
    ELSE IF num = den THEN RSqrtHalf
    ELSE Sym(1, num, den)
    ) : num \in {num_}, den \in {den_}})

sin(num_, den_) == Only({(
    IF num = 0 THEN RZero
    ELSE IF num = den THEN RSqrtHalf
    ELSE Sym(2, num, den)
    ) : num \in {num_}, den \in {den_}})

(* 0.5 * x for a table value x.                                            *)
Half(x_) ==
    Only({IF IsSym(x) THEN [x EXCEPT ![4] = 1] ELSE RMul(RHalf, x) : x \in {x_}})

-----------------------------------------------------------------------------
(* The statics of FFT_Impl<T> as one record c, threaded through the        *)
(* private functions; c.ev notes what the running call has constructed.    *)

NoEvents ==
    [makewt |-> <<>>, makect |-> <<>>, plans |-> {}, wtw |-> {}, ctw |-> {}]

Statics == [it |-> it, wt_n |-> wt_n, wt |-> wt, ct_n |-> ct_n, ct |-> ct,
            ev |-> NoEvents]

(* n & (n - 1) of powcheck.                                                 *)
RECURSIVE BitAnd(_, _)
BitAnd(x_, y_) == Only({(
    IF x = 0 \/ y = 0 THEN 0
    ELSE (x % 2) * (y % 2) + 2 * BitAnd(x \div 2, y \div 2)
    ) : x \in {x_}, y \in {y_}})

powcheck_without_lower_bound(n_) ==
    BitAnd(n_, n_ - 1) = 0

powcheck(n_) ==
    Only({(n >= 2) /\ BitAnd(n, n - 1) = 0 : n \in {n_}})

(* getip: pn = log2(n); the plan it[pn] is built when it is still empty.   *)
RECURSIVE Log2(_)
Log2(nn_) ==
    Only({IF nn \div 2 = 0 THEN 0 ELSE 1 + Log2(nn \div 2) : nn \in {nn_}})

RECURSIVE IpInner(_, _, _, _)
IpInner(ip_, l_, m_, j_) == Only({(
    IF j < m THEN IpInner(PushBack(ip, ip[j] + l), l, m, j + 1) ELSE ip
    ) : ip \in {ip_}, l \in {l_}, m \in {m_}, j \in {j_}})

RECURSIVE IpLoop(_, _, _)
IpLoop(ip_, l_, m_) == Only({(
    IF (m * 8) < l
    THEN IpLoop(IpInner(ip, l \div 2, m, 0), l \div 2, m * 2)
    ELSE PushBack(PushBack(ip, m), IF (m * 8) = l THEN 1 ELSE 0)
    ) : ip \in {ip_}, l \in {l_}, m \in {m_}})

BuildIp(n_) ==
    Only({IpLoop(PushBack(EmptyVec, 0), n, 1) : n \in {n_}})

getip_rebuilding(n_, c_) ==
    [c_ EXCEPT !.it = [Resize(c_.it, IF Size(c_.it) <= Log2(n_) THEN Log2(n_) + 1
                                     ELSE Size(c_.it), EmptyVec)
                       EXCEPT ![Log2(n_)] = BuildIp(n_)],
               !.ev.plans = @ \cup {Log2(n_)}]

getip(n_, c_) == Only({(
    LET pn == Log2(n)
        it1 == IF Size(c.it) <= pn THEN Resize(c.it, pn + 1, EmptyVec) ELSE c.it
    IN IF Size(it1[pn]) = 0
       THEN [c EXCEPT !.it = [it1 EXCEPT ![pn] = BuildIp(n)],
                      !.ev.plans = @ \cup {pn}]
       ELSE [c EXCEPT !.it = it1]
    ) : n \in {n_}, c \in {c_}})

Plan(n_, c_) ==
    Only({c.it[Log2(n)] : n \in {n_}, c \in {c_}})
PlanM(ip_) ==
    Only({ip[Size(ip) - 2] : ip \in {ip_}})
PlanPow4(ip_) ==
    Only({ip[Size(ip) - 1] # 0 : ip \in {ip_}})

-----------------------------------------------------------------------------
(* bitrv2 / bitrv2conj, in place.  cj is TRUE for bitrv2conj, whose moves  *)
(* negate every imaginary part.                                            *)

Im(cj_, x_) ==
    Only({IF cj THEN RNeg(x) ELSE x : cj \in {cj_}, x \in {x_}})

SwapC(a_, j1_, k1_, cj_) == Only({(
    [a EXCEPT ![j1] = a[k1], ![j1 + 1] = Im(cj, a[k1 + 1]),
              ![k1] = a[j1], ![k1 + 1] = Im(cj, a[j1 + 1])]
    ) : a \in {a_}, j1 \in {j1_}, k1 \in {k1_}, cj \in {cj_}})

NegIm(a_, k1_, cj_) ==
    Only({IF cj THEN [a EXCEPT ![k1 + 1] = RNeg(a[k1 + 1])] ELSE a : a \in {a_}, k1 \in {k1_}, cj \in {cj_}})

RECURSIVE BitrvJ(_, _, _, _, _, _, _)
BitrvJ(a_, ip_, m2_, pow4_, cj_, k_, j_) == Only({(
    IF j >= k THEN a
    ELSE LET j1 == 2 * j + ip[k]
             k1 == 2 * k + ip[j]
             a1 == SwapC(a, j1, k1, cj)
             a2 == IF pow4
                   THEN SwapC(SwapC(SwapC(a1, j1 + m2, k1 + 2 * m2, cj),
                                    j1 + 2 * m2, k1 + m2, cj),
                              j1 + 3 * m2, k1 + 3 * m2, cj)
                   ELSE SwapC(a1, j1 + m2, k1 + m2, cj)
         IN BitrvJ(a2, ip, m2, pow4, cj, k, j + 1)
    ) : a \in {a_}, ip \in {ip_}, m2 \in {m2_}, pow4 \in {pow4_}, cj \in {cj_}, k \in {k_}, j \in {j_}})

RECURSIVE BitrvK(_, _, _, _, _, _)
BitrvK(a_, ip_, m_, pow4_, cj_, k_) == Only({(
    IF k >= m THEN a
    ELSE LET m2 == 2 * m
             a1 == BitrvJ(a, ip, m2, pow4, cj, k, 0)
             k1 == 2 * k + ip[k]
             a2 == IF pow4
                   THEN NegIm(SwapC(NegIm(a1, k1, cj), k1 + m2, k1 + 2 * m2, cj),
                              k1 + 3 * m2, cj)
                   ELSE NegIm(NegIm(a1, k1, cj), k1 + m2, cj)
         IN BitrvK(a2, ip, m, pow4, cj, k + 1)
    ) : a \in {a_}, ip \in {ip_}, m \in {m_}, pow4 \in {pow4_}, cj \in {cj_}, k \in {k_}})

BitrvInPlace(a_, ip_, cj_) == Only({(
    LET m == PlanM(ip)
    IN IF PlanPow4(ip)
       THEN BitrvK(a, ip, m, TRUE, cj, 0)
       ELSE BitrvK(NegIm(NegIm(a, 0, cj), 2 * m, cj), ip, m, FALSE, cj, 1)
    ) : a \in {a_}, ip \in {ip_}, cj \in {cj_}})

(* Both return [a |-> the array, c |-> the statics after getip].           *)
bitrv2(n_, a_, c_) == Only({(
    Let(getip(n, c), LAMBDA c1 :
        [a |-> BitrvInPlace(a, Plan(n, c1), FALSE), c |-> c1])
    ) : n \in {n_}, a \in {a_}, c \in {c_}})

bitrv2conj_as_bitrv2(n_, a_, c_) ==
    bitrv2(n_, a_, c_)

bitrv2conj(n_, a_, c_) == Only({(
    Let(getip(n, c), LAMBDA c1 :
        [a |-> BitrvInPlace(a, Plan(n, c1), TRUE), c |-> c1])
    ) : n \in {n_}, a \in {a_}, c \in {c_}})

(* bitrv2 / bitrv2conj, out of place: b is written from a.                 *)
CopyC(b_, a_, k1_, cj_) == Only({(
    [b EXCEPT ![k1] = a[k1], ![k1 + 1] = Im(cj, a[k1 + 1])]
    ) : b \in {b_}, a \in {a_}, k1 \in {k1_}, cj \in {cj_}})

CrossC(b_, a_, j1_, k1_, cj_) == Only({(
    [b EXCEPT ![k1] = a[j1], ![k1 + 1] = Im(cj, a[j1 + 1]),
              ![j1] = a[k1], ![j1 + 1] = Im(cj, a[k1 + 1])]
    ) : b \in {b_}, a \in {a_}, j1 \in {j1_}, k1 \in {k1_}, cj \in {cj_}})

RECURSIVE BitrvOutJ(_, _, _, _, _, _, _, _)
BitrvOutJ(b_, a_, ip_, m2_, pow4_, cj_, k_, j_) == Only({(
    IF j >= k THEN b
    ELSE LET j1 == 2 * j + ip[k]
             k1 == 2 * k + ip[j]
             b1 == CrossC(b, a, j1, k1, cj)
             b2 == IF pow4
                   THEN CrossC(CrossC(CrossC(b1, a, j1 + m2, k1 + 2 * m2, cj),
                                      a, j1 + 2 * m2, k1 + m2, cj),
                               a, j1 + 3 * m2, k1 + 3 * m2, cj)
                   ELSE CrossC(b1, a, j1 + m2, k1 + m2, cj)
         IN BitrvOutJ(b2, a, ip, m2, pow4, cj, k, j + 1)
    ) : b \in {b_}, a \in {a_}, ip \in {ip_}, m2 \in {m2_}, pow4 \in {pow4_}, cj \in {cj_}, k \in {k_}, j \in {j_}})

RECURSIVE BitrvOutK(_, _, _, _, _, _, _)
BitrvOutK(b_, a_, ip_, m_, pow4_, cj_, k_) == Only({(
    IF k >= m THEN b
    ELSE LET m2 == 2 * m
             b1 == BitrvOutJ(b, a, ip, m2, pow4, cj, k, 0)
             k1 == 2 * k + ip[k]
             b2 == IF pow4
                   THEN CopyC(CrossC(CopyC(b1, a, k1, cj), a, k1 + m2, k1 + 2 * m2, cj),
                              a, k1 + 3 * m2, cj)
                   ELSE CopyC(CopyC(b1, a, k1, cj), a, k1 + m2, cj)
         IN BitrvOutK(b2, a, ip, m, pow4, cj, k + 1)
    ) : b \in {b_}, a \in {a_}, ip \in {ip_}, m \in {m_}, pow4 \in {pow4_}, cj \in {cj_}, k \in {k_}})

BitrvOutOfPlace(b_, a_, ip_, cj_) == Only({(
    LET m == PlanM(ip)
    IN IF PlanPow4(ip)
       THEN BitrvOutK(b, a, ip, m, TRUE, cj, 0)
       ELSE BitrvOutK(CopyC(CopyC(b, a, 0, cj), a, 2 * m, cj), a, ip, m, FALSE, cj, 1)
    ) : b \in {b_}, a \in {a_}, ip \in {ip_}, cj \in {cj_}})

bitrv2_out(n_, a_, b_, c_) == Only({(
    Let(getip(n, c), LAMBDA c1 :
        [a |-> BitrvOutOfPlace(b, a, Plan(n, c1), FALSE), c |-> c1])
    ) : n \in {n_}, a \in {a_}, b \in {b_}, c \in {c_}})

bitrv2conj_out(n_, a_, b_, c_) == Only({(
    Let(getip(n, c), LAMBDA c1 :
        [a |-> BitrvOutOfPlace(b, a, Plan(n, c1), TRUE), c |-> c1])
    ) : n \in {n_}, a \in {a_}, b \in {b_}, c \in {c_}})

-----------------------------------------------------------------------------
(* The arithmetic of T, written infix for the butterflies.                 *)
a \oplus b == RAdd(a, b)
a \ominus b == RSub(a, b)
a \otimes b == RMul(a, b)

(* makewt(nw): wt_n = nw, wt resized to nw (new slots value-initialised),  *)
(* then filled and, for nw > 4, bit-reversed.  c.ev.wtw collects the       *)
(* indices of wt that the call assigns.                                    *)
RECURSIVE MakewtLoop(_, _, _, _)
MakewtLoop(w_, nw_, nwh_, j_) == Only({(
    IF j >= nwh THEN w
    ELSE LET x == cos(j, nwh)
             y == sin(j, nwh)
         IN MakewtLoop([w EXCEPT ![j] = x, ![j + 1] = y,
                                 ![nw - j] = y, ![nw - j + 1] = x],
                       nw, nwh, j + 2)
    ) : w \in {w_}, nw \in {nw_}, nwh \in {nwh_}, j \in {j_}})

MakewtLoopIdx(nw_, nwh_) == Only({(
    UNION {{j, j + 1, nw - j, nw - j + 1} : j \in {i \in 2..(nwh - 1) : i % 2 = 0}}
    ) : nw \in {nw_}, nwh \in {nwh_}})

Moved(a_, b_) ==
    Only({{i \in DOMAIN a : a[i] # b[i]} : a \in {a_}, b \in {b_}})

makewt(nw_, c_) == Only({(
    LET nwh == nw \div 2
    IN Let([c EXCEPT !.wt_n = nw, !.wt = Resize(c.wt, nw, RZero),
                     !.ev.makewt = Append(@, nw)], LAMBDA c0 :
       IF nw > 2
       THEN Let([c0 EXCEPT !.wt = [@ EXCEPT ![0] = ROne, ![1] = RZero,
                                            ![nwh] = cos(nwh, nwh),
                                            ![nwh + 1] = cos(nwh, nwh)],
                           !.ev.wtw = @ \cup {0, 1, nwh, nwh + 1}], LAMBDA c1 :
            IF nwh > 2
            THEN Let(MakewtLoop(c1.wt, nw, nwh, 2), LAMBDA w2 :
                 Let(bitrv2(nw, w2, c1), LAMBDA r :
                     [r.c EXCEPT !.wt = r.a,
                                 !.ev.wtw = @ \cup MakewtLoopIdx(nw, nwh)
                                              \cup Moved(w2, r.a)]))
            ELSE c1)
       ELSE c0)
    ) : nw \in {nw_}, c \in {c_}})

(* makect(nc): ct_n = nc, ct resized to nc and filled.                     *)
RECURSIVE MakectLoop(_, _, _, _)
MakectLoop(t_, nc_, nch_, j_) == Only({(
    IF j >= nch THEN t
    ELSE MakectLoop([t EXCEPT ![j] = Half(cos(j, nch)),
                              ![nc - j] = Half(sin(j, nch))],
                    nc, nch, j + 1)
    ) : t \in {t_}, nc \in {nc_}, nch \in {nch_}, j \in {j_}})

makect(nc_, c_) == Only({(
    LET nch == nc \div 2
    IN Let([c EXCEPT !.ct_n = nc, !.ct = Resize(c.ct, nc, RZero),
                     !.ev.makect = Append(@, nc)], LAMBDA c0 :
       IF nc > 1
       THEN Let([c0.ct EXCEPT ![0] = cos(nch, nch)], LAMBDA t1 :
            Let([t1 EXCEPT ![nch] = Half(t1[0])], LAMBDA t2 :
                [c0 EXCEPT !.ct = MakectLoop(t2, nc, nch, 1),
                           !.ev.ctw = @ \cup {0, nch}
                                        \cup UNION {{j, nc - j} : j \in 1..(nch - 1)}]))
       ELSE c0)
    ) : nc \in {nc_}, c \in {c_}})

-----------------------------------------------------------------------------
(* cft1st for n = 16, where its loop "for (j = 16; j < n; j += 16)" has    *)
(* no iteration: the two leading butterflies, the second with wk1r = wt[2].*)
cft1st(n_, a_, w_) == Only({(
    LET x0r == a[0] \oplus a[2]
        x0i == a[1] \oplus a[3]
        x1r == a[0] \ominus a[2]
        x1i == a[1] \ominus a[3]
        x2r == a[4] \oplus a[6]
        x2i == a[5] \oplus a[7]
        x3r == a[4] \ominus a[6]
        x3i == a[5] \ominus a[7]
        wk1r == w[2]
        y0r == a[8] \oplus a[10]
        y0i == a[9] \oplus a[11]
        y1r == a[8] \ominus a[10]
        y1i == a[9] \ominus a[11]
        y2r == a[12] \oplus a[14]
        y2i == a[13] \oplus a[15]
        y3r == a[12] \ominus a[14]
        y3i == a[13] \ominus a[15]
        z0r == y1r \ominus y3i
        z0i == y1i \oplus y3r
        v0r == y3i \oplus y1r
        v0i == y3r \ominus y1i
    IN [a EXCEPT ![0] = x0r \oplus x2r,
                 ![1] = x0i \oplus x2i,
                 ![4] = x0r \ominus x2r,
                 ![5] = x0i \ominus x2i,
                 ![2] = x1r \ominus x3i,
                 ![3] = x1i \oplus x3r,
                 ![6] = x1r \oplus x3i,
                 ![7] = x1i \ominus x3r,
                 ![8] = y0r \oplus y2r,
                 ![9] = y0i \oplus y2i,
                 ![12] = y2i \ominus y0i,
                 ![13] = y0r \ominus y2r,
                 ![10] = wk1r \otimes (z0r \ominus z0i),
                 ![11] = wk1r \otimes (z0r \oplus z0i),
                 ![14] = wk1r \otimes (v0i \ominus v0r),
                 ![15] = wk1r \otimes (v0i \oplus v0r)]
    ) : n \in {n_}, a \in {a_}, w \in {w_}})

(* The closing stage of cftfsub: radix 4 when (l << 2) == n, else radix 2. *)
RECURSIVE CftfRadix4(_, _, _)
CftfRadix4(a_, l_, j_) == Only({(
    IF j >= l THEN a
    ELSE LET j1 == j + l
             j2 == j1 + l
             j3 == j2 + l
             x0r == a[j] \oplus a[j1]
             x0i == a[j + 1] \oplus a[j1 + 1]
             x1r == a[j] \ominus a[j1]
             x1i == a[j + 1] \ominus a[j1 + 1]
             x2r == a[j2] \oplus a[j3]
             x2i == a[j2 + 1] \oplus a[j3 + 1]
             x3r == a[j2] \ominus a[j3]
             x3i == a[j2 + 1] \ominus a[j3 + 1]
         IN CftfRadix4([a EXCEPT ![j] = x0r \oplus x2r,
                                 ![j + 1] = x0i \oplus x2i,
                                 ![j2] = x0r \ominus x2r,
                                 ![j2 + 1] = x0i \ominus x2i,
                                 ![j1] = x1r \ominus x3i,
                                 ![j1 + 1] = x1i \oplus x3r,
                                 ![j3] = x1r \oplus x3i,
                                 ![j3 + 1] = x1i \ominus x3r],
                       l, j + 2)
    ) : a \in {a_}, l \in {l_}, j \in {j_}})

RECURSIVE CftfRadix2(_, _, _)
CftfRadix2(a_, l_, j_) == Only({(
    IF j >= l THEN a
    ELSE LET j1 == j + l
             x0r == a[j] \ominus a[j1]
             x0i == a[j + 1] \ominus a[j1 + 1]
         IN CftfRadix2([a EXCEPT ![j] = a[j] \oplus a[j1],
                                 ![j + 1] = a[j + 1] \oplus a[j1 + 1],
                                 ![j1] = x0r,
                                 ![j1 + 1] = x0i],
                       l, j + 2)
    ) : a \in {a_}, l \in {l_}, j \in {j_}})

(* The value of l when cftfsub and cftbsub reach their last stage: 2, or   *)
(* from 8 on after cft1st, times 4 for every cftmdl.                       *)
RECURSIVE CftmdlLoop(_, _)
CftmdlLoop(l_, n_) ==
    Only({IF (l * 4) < n THEN CftmdlLoop(l * 4, n) ELSE l : l \in {l_}, n \in {n_}})

CftL_without_cft1st(n_) ==
    2

CftL(n_) ==
    Only({IF n > 8 THEN CftmdlLoop(8, n) ELSE 2 : n \in {n_}})

(* cftfsub for n <= 16 (cftmdl runs only from n = 64 on).                  *)
cftfsub(n_, a_, w_) == Only({(
    LET l == CftL(n)
    IN Let(IF n > 8 THEN cft1st(n, a, w) ELSE a, LAMBDA a1 :
           IF (l * 4) = n THEN CftfRadix4(a1, l, 0) ELSE CftfRadix2(a1, l, 0))
    ) : n \in {n_}, a \in {a_}, w \in {w_}})

RECURSIVE CftbRadix4(_, _, _)
CftbRadix4(a_, l_, j_) == Only({(
    IF j >= l THEN a
    ELSE LET j1 == j + l
             j2 == j1 + l
             j3 == j2 + l
             x0r == a[j] \oplus a[j1]
             x0i == RNeg(a[j + 1]) \ominus a[j1 + 1]
             x1r == a[j] \ominus a[j1]
             x1i == RNeg(a[j + 1]) \oplus a[j1 + 1]
             x2r == a[j2] \oplus a[j3]
             x2i == a[j2 + 1] \oplus a[j3 + 1]
             x3r == a[j2] \ominus a[j3]
             x3i == a[j2 + 1] \ominus a[j3 + 1]
         IN CftbRadix4([a EXCEPT ![j] = x0r \oplus x2r,
                                 ![j + 1] = x0i \ominus x2i,
                                 ![j2] = x0r \ominus x2r,
                                 ![j2 + 1] = x0i \oplus x2i,
                                 ![j1] = x1r \ominus x3i,
                                 ![j1 + 1] = x1i \ominus x3r,
                                 ![j3] = x1r \oplus x3i,
                                 ![j3 + 1] = x1i \oplus x3r],
                       l, j + 2)
    ) : a \in {a_}, l \in {l_}, j \in {j_}})

RECURSIVE CftbRadix2(_, _, _)
CftbRadix2(a_, l_, j_) == Only({(
    IF j >= l THEN a
    ELSE LET j1 == j + l
             x0r == a[j] \ominus a[j1]
             x0i == RNeg(a[j + 1]) \oplus a[j1 + 1]
         IN CftbRadix2([a EXCEPT ![j] = a[j] \oplus a[j1],
                                 ![j + 1] = RNeg(a[j + 1]) \ominus a[j1 + 1],
                                 ![j1] = x0r,
                                 ![j1 + 1] = x0i],
                       l, j + 2)
    ) : a \in {a_}, l \in {l_}, j \in {j_}})

cftbsub_as_cftfsub(n_, a_, w_) ==
    cftfsub(n_, a_, w_)

cftbsub(n_, a_, w_) == Only({(
    LET l == CftL(n)
    IN Let(IF n > 8 THEN cft1st(n, a, w) ELSE a, LAMBDA a1 :
           IF (l * 4) = n THEN CftbRadix4(a1, l, 0) ELSE CftbRadix2(a1, l, 0))
    ) : n \in {n_}, a \in {a_}, w \in {w_}})

-----------------------------------------------------------------------------
(* cdft(n, isgn, a) and cdft(n, isgn, a, b), after powcheck(n) has passed. *)
(* Both return [a |-> the transformed array, c |-> the statics].           *)
cdft(n_, isgn_, a_, c_) == Only({(
    Let(IF n > (c.wt_n * 4) THEN makewt(n \div 4, c) ELSE c, LAMBDA c1 :
        IF n > 4
        THEN IF isgn >= 0
             THEN Let(bitrv2(n, a, c1), LAMBDA r :
                      [a |-> cftfsub(n, r.a, r.c.wt), c |-> r.c])
             ELSE Let(bitrv2conj(n, a, c1), LAMBDA r :
                      [a |-> cftbsub(n, r.a, r.c.wt), c |-> r.c])
        ELSE IF n = 4
             THEN [a |-> cftfsub(n, a, c1.wt), c |-> c1]
             ELSE [a |-> a, c |-> c1])
    ) : n \in {n_}, isgn \in {isgn_}, a \in {a_}, c \in {c_}})

CopyFrom(b_, a_, lo_, n_) ==
    Only({[i \in DOMAIN b |-> IF lo <= i /\ i < n THEN a[i] ELSE b[i]] : b \in {b_}, a \in {a_}, lo \in {lo_}, n \in {n_}})

cdft_out(n_, isgn_, a_, b_, c_) == Only({(
    Let(IF n > (c.wt_n * 4) THEN makewt(n \div 4, c) ELSE c, LAMBDA c1 :
        IF n > 4
        THEN IF isgn >= 0
             THEN Let(bitrv2_out(n, a, b, c1), LAMBDA r :
                      [a |-> cftfsub(n, r.a, r.c.wt), c |-> r.c])
             ELSE Let(bitrv2conj_out(n, a, b, c1), LAMBDA r :
                      [a |-> cftbsub(n, r.a, r.c.wt), c |-> r.c])
        ELSE Let(CopyFrom(b, a, 0, n), LAMBDA b1 :
                 [a |-> IF n = 4 THEN cftfsub(n, b1, c1.wt) ELSE b1, c |-> c1]))
    ) : n \in {n_}, isgn \in {isgn_}, a \in {a_}, b \in {b_}, c \in {c_}})

-----------------------------------------------------------------------------
(* rftfsub / rftbsub: the real-transform passes over the cosine table.     *)
RECURSIVE RftfLoop(_, _, _, _, _, _, _)
RftfLoop(a_, n_, nc_, t_, ks_, kk0_, j_) == Only({(
    IF j >= (n \div 2) THEN a
    ELSE LET k == n - j
             kk == kk0 + ks
             wkr == RHalf \ominus t[nc - kk]
             wki == t[kk]
             xr == a[j] \ominus a[k]
             xi == a[j + 1] \oplus a[k + 1]
             yr == (wkr \otimes xr) \ominus (wki \otimes xi)
             yi == (wkr \otimes xi) \oplus (wki \otimes xr)
         IN RftfLoop([a EXCEPT ![j] = a[j] \ominus yr,
                               ![j + 1] = a[j + 1] \ominus yi,
                               ![k] = a[k] \oplus yr,
                               ![k + 1] = a[k + 1] \ominus yi],
                     n, nc, t, ks, kk, j + 2)
    ) : a \in {a_}, n \in {n_}, nc \in {nc_}, t \in {t_}, ks \in {ks_}, kk0 \in {kk0_}, j \in {j_}})

rftfsub_skipped(n_, a_, nc_, t_) ==
    a_

rftfsub(n_, a_, nc_, t_) == Only({(
    LET m == n \div 2
        ks == (2 * nc) \div m
    IN RftfLoop(a, n, nc, t, ks, 0, 2)
    ) : n \in {n_}, a \in {a_}, nc \in {nc_}, t \in {t_}})

RftbLoop_as_RftfLoop(a_, n_, nc_, t_, ks_, kk0_, j_) ==
    RftfLoop(a_, n_, nc_, t_, ks_, kk0_, j_)

RECURSIVE RftbLoop(_, _, _, _, _, _, _)
RftbLoop(a_, n_, nc_, t_, ks_, kk0_, j_) == Only({(
    IF j >= (n \div 2) THEN a
    ELSE LET k == n - j
             kk == kk0 + ks
             wkr == RHalf \ominus t[nc - kk]
             wki == t[kk]
             xr == a[j] \ominus a[k]
             xi == a[j + 1] \oplus a[k + 1]
             yr == (wkr \otimes xr) \oplus (wki \otimes xi)
             yi == (wkr \otimes xi) \ominus (wki \otimes xr)
         IN RftbLoop([a EXCEPT ![j] = a[j] \ominus yr,
                               ![j + 1] = yi \ominus a[j + 1],
                               ![k] = a[k] \oplus yr,
                               ![k + 1] = yi \ominus a[k + 1]],
                     n, nc, t, ks, kk, j + 2)
    ) : a \in {a_}, n \in {n_}, nc \in {nc_}, t \in {t_}, ks \in {ks_}, kk0 \in {kk0_}, j \in {j_}})

rftbsub(n_, a_, nc_, t_) == Only({(
    LET m == n \div 2
        ks == (2 * nc) \div m
    IN Let(RftbLoop([a EXCEPT ![1] = RNeg(a[1])], n, nc, t, ks, 0, 2), LAMBDA a2 :
           [a2 EXCEPT ![m + 1] = RNeg(a2[m + 1])])
    ) : n \in {n_}, a \in {a_}, nc \in {nc_}, t \in {t_}})

(* rdft(n, isgn, a), after powcheck(n) has passed.                         *)
rdft(n_, isgn_, a_, c_) == Only({(
    Let(IF n > (c.wt_n * 4) THEN makewt(n \div 4, c) ELSE c, LAMBDA c1 :
    Let(IF n > (c1.ct_n * 4) THEN makect(n \div 4, c1) ELSE c1, LAMBDA c2 :
        IF isgn >= 0
        THEN Let(IF n > 4
                 THEN Let(bitrv2(n, a, c2), LAMBDA b :
                          [a |-> rftfsub(n, cftfsub(n, b.a, b.c.wt), c2.ct_n, b.c.ct),
                           c |-> b.c])
                 ELSE IF n = 4
                 THEN [a |-> cftfsub(n, a, c2.wt), c |-> c2]
                 ELSE [a |-> a, c |-> c2], LAMBDA r :
             Let(r.a[0] \ominus r.a[1], LAMBDA xi :
                 [a |-> [r.a EXCEPT ![0] = r.a[0] \oplus r.a[1], ![1] = xi],
                  c |-> r.c]))
        ELSE Let([a EXCEPT ![1] = RHalf \otimes (a[0] \ominus a[1])], LAMBDA a1 :
             Let([a1 EXCEPT ![0] = a1[0] \ominus a1[1]], LAMBDA a2 :
                 IF n > 4
                 THEN Let(bitrv2(n, rftbsub(n, a2, c2.ct_n, c2.ct), c2), LAMBDA b :
                          [a |-> cftbsub(n, b.a, b.c.wt), c |-> b.c])
                 ELSE IF n = 4
                 THEN [a |-> cftfsub(n, a2, c2.wt), c |-> c2]
                 ELSE [a |-> a2, c |-> c2]))))
    ) : n \in {n_}, isgn \in {isgn_}, a \in {a_}, c \in {c_}})

(* rftbsub(n, a, b, nc), out of place: reads a, writes b.                  *)
RECURSIVE RftbOutLoop(_, _, _, _, _, _, _, _)
RftbOutLoop(a_, b_, n_, nc_, t_, ks_, kk0_, j_) == Only({(
    IF j >= (n \div 2) THEN b
    ELSE LET k == n - j
             kk == kk0 + ks
             wkr == RHalf \ominus t[nc - kk]
             wki == t[kk]
             xr == a[j] \ominus a[k]
             xi == a[j + 1] \oplus a[k + 1]
             yr == (wkr \otimes xr) \oplus (wki \otimes xi)
             yi == (wkr \otimes xi) \ominus (wki \otimes xr)
         IN RftbOutLoop(a, [b EXCEPT ![j] = a[j] \ominus yr,
                                     ![j + 1] = yi \ominus a[j + 1],
                                     ![k] = a[k] \oplus yr,
                                     ![k + 1] = yi \ominus a[k + 1]],
                        n, nc, t, ks, kk, j + 2)
    ) : a \in {a_}, b \in {b_}, n \in {n_}, nc \in {nc_}, t \in {t_}, ks \in {ks_}, kk0 \in {kk0_}, j \in {j_}})

rftbsub_out(n_, a_, b_, nc_, t_) == Only({(
    LET m == n \div 2
        ks == (2 * nc) \div m
    IN Let(RftbOutLoop(a, [b EXCEPT ![1] = RNeg(b[1])], n, nc, t, ks, 0, 2), LAMBDA b2 :
           [b2 EXCEPT ![m] = a[m], ![m + 1] = RNeg(a[m + 1])])
    ) : n \in {n_}, a \in {a_}, b \in {b_}, nc \in {nc_}, t \in {t_}})

(* rdft(n, isgn, a, b), after powcheck(n) has passed.  The inverse branch  *)
(* never stores a[0] into b[0]: it subtracts from what b[0] held before.   *)
rdft_out(n_, isgn_, a_, b_, c_) == Only({(
    Let(IF n > (c.wt_n * 4) THEN makewt(n \div 4, c) ELSE c, LAMBDA c1 :
    Let(IF n > (c1.ct_n * 4) THEN makect(n \div 4, c1) ELSE c1, LAMBDA c2 :
        IF isgn >= 0
        THEN Let(IF n > 4
                 THEN Let(bitrv2_out(n, a, b, c2), LAMBDA r :
                          [a |-> rftfsub(n, cftfsub(n, r.a, r.c.wt), c2.ct_n, r.c.ct),
                           c |-> r.c])
                 ELSE Let(CopyFrom(b, a, 0, n), LAMBDA b1 :
                          [a |-> IF n = 4 THEN cftfsub(n, b1, c2.wt) ELSE b1, c |-> c2]),
                 LAMBDA r :
             Let(r.a[0] \ominus r.a[1], LAMBDA xi :
                 [a |-> [r.a EXCEPT ![0] = r.a[0] \oplus r.a[1], ![1] = xi],
                  c |-> r.c]))
        ELSE Let([b EXCEPT ![1] = RHalf \otimes (a[0] \ominus a[1])], LAMBDA b1 :
             Let([b1 EXCEPT ![0] = b1[0] \ominus b1[1]], LAMBDA b2 :
                 IF n > 4
                 THEN Let(bitrv2(n, rftbsub_out(n, a, b2, c2.ct_n, c2.ct), c2), LAMBDA r :
                          [a |-> cftbsub(n, r.a, r.c.wt), c |-> r.c])
                 ELSE Let(CopyFrom(b2, a, 2, n), LAMBDA b3 :
                          [a |-> IF n = 4 THEN cftfsub(n, b3, c2.wt) ELSE b3, c |-> c2])))))
    ) : n \in {n_}, isgn \in {isgn_}, a \in {a_}, b \in {b_}, c \in {c_}})

-----------------------------------------------------------------------------
(* The template engine of include/fft.hpp: arrays of N complex values.     *)

(* exp(2*pi*i * m / 8): the values cos and sin take at multiples of pi/4.  *)
Root8(m_) == Only({(
    LET s == RSqrtHalf
        t == RNeg(RSqrtHalf)
    IN CASE m % 8 = 0 -> Cx(ROne, RZero)
         [] m % 8 = 1 -> Cx(s, s)
         [] m % 8 = 2 -> Cx(RZero, ROne)
         [] m % 8 = 3 -> Cx(t, s)
         [] m % 8 = 4 -> Cx(RInt(-1), RZero)
         [] m % 8 = 5 -> Cx(t, t)
         [] m % 8 = 6 -> Cx(RZero, RInt(-1))
         [] OTHER -> Cx(s, t)
    ) : m \in {m_}})

(* twiddle4(a, n, d): twids[i] = exp(i * phi), phi = (2*pi*d/n) * a * i,   *)
(* for n dividing 8.                                                       *)
twiddle4(a_, n_, d_) ==
    Only({[i \in 0..((n \div 4) - 1) |-> Root8(d * a * i * (8 \div n))] : a \in {a_}, n \in {n_}, d \in {d_}})

(* Radix4::direction.                                                      *)
direction_reversed(D_, z_) ==
    IF D_ > 0 THEN Cx(z_[2], RNeg(z_[1])) ELSE Cx(RNeg(z_[2]), z_[1])

direction_unrotated(D_, z_) ==
    z_

direction(D_, z_) ==
    Only({IF D > 0 THEN Cx(RNeg(z[2]), z[1]) ELSE Cx(z[2], RNeg(z[1])) : D \in {D_}, z \in {z_}})

(* Radix4<T, N, D>::operator()(data + off), with its two terminating       *)
(* specialisations N = 2 and N = 1.                                        *)
RECURSIVE Radix4Loop(_, _, _, _, _)
Radix4Loop(N_, D_, data_, off_, i0_) == Only({(
    LET N4 == N \div 4
        i1 == i0 + N4
        i2 == i1 + N4
        i3 == i2 + N4
    IN IF i0 >= N4 THEN data
       ELSE LET a0 == data[off + i0]
                a2 == IF i0 = 0 THEN data[off + i1]
                      ELSE mul(data[off + i1], twiddle4(2, N, D)[i0])
                a1 == IF i0 = 0 THEN data[off + i2]
                      ELSE mul(data[off + i2], twiddle4(1, N, D)[i0])
                a3 == IF i0 = 0 THEN data[off + i3]
                      ELSE mul(data[off + i3], twiddle4(3, N, D)[i0])
                b0 == CAdd(a1, a3)
                b1 == direction(D, CSub(a1, a3))
            IN Radix4Loop(N, D,
                          [data EXCEPT ![off + i0] = CAdd(CAdd(a0, a2), b0),
                                       ![off + i1] = CAdd(CSub(a0, a2), b1),
                                       ![off + i2] = CSub(CAdd(a0, a2), b0),
                                       ![off + i3] = CSub(CSub(a0, a2), b1)],
                          off, i0 + 1)
    ) : N \in {N_}, D \in {D_}, data \in {data_}, off \in {off_}, i0 \in {i0_}})

RECURSIVE Radix4(_, _, _, _)
Radix4(N_, D_, data_, off_) == Only({(
    IF N = 1 THEN data
    ELSE IF N = 2
    THEN [data EXCEPT ![off] = CAdd(data[off], data[off + 1]),
                      ![off + 1] = CSub(data[off], data[off + 1])]
    ELSE LET N4 == N \div 4
             d0 == Radix4(N4, D, data, off)
             d1 == Radix4(N4, D, d0, off + N4)
             d2 == Radix4(N4, D, d1, off + N4 + N4)
             d3 == Radix4(N4, D, d2, off + N4 + N4 + N4)
         IN Radix4Loop(N, D, d3, off, 0)
    ) : N \in {N_}, D \in {D_}, data \in {data_}, off \in {off_}})

(* The size at which the recursion of Radix4<T, N, D> through its member   *)
(* next, a Radix4<T, N/4, D>, meets a terminating specialisation.          *)
RECURSIVE Radix4Base(_)
Radix4Base(N_) ==
    Only({IF N = 1 \/ N = 2 THEN N ELSE Radix4Base(N \div 4) : N \in {N_}})

(* BitReverse<N>::calc: the pattern, and ispow4 as it leaves the loop.     *)
RECURSIVE CalcInner(_, _, _, _)
CalcInner(l_, n_, m_, j_) == Only({(
    IF j < m THEN CalcInner(PushBack(l, l[j] + n), n, m, j + 1) ELSE l
    ) : l \in {l_}, n \in {n_}, m \in {m_}, j \in {j_}})

RECURSIVE CalcLoop(_, _, _)
CalcLoop(l_, n_, m_) == Only({(
    IF (m * 4) < n
    THEN CalcLoop(CalcInner(l, n \div 2, m, 0), n \div 2, m * 2)
    ELSE [pattern |-> l, ispow4 |-> ((m * 4) = n)]
    ) : l \in {l_}, n \in {n_}, m \in {m_}})

BitReverse(N_) ==
    Only({CalcLoop(PushBack(EmptyVec, 0), N, 1) : N \in {N_}})

Swap_one_way(d_, j1_, k1_) ==
    [d_ EXCEPT ![j1_] = d_[k1_]]

(* FFT<T, N>::reindex(data), in place.                                     *)
Swap(d_, j1_, k1_) ==
    Only({[d EXCEPT ![j1] = d[k1], ![k1] = d[j1]] : d \in {d_}, j1 \in {j1_}, k1 \in {k1_}})

RECURSIVE ReindexJ(_, _, _, _, _, _)
ReindexJ(d_, pattern_, m_, ispow4_, k_, j_) == Only({(
    IF j >= k THEN d
    ELSE LET j1 == j + pattern[k]
             k1 == k + pattern[j]
             m2 == 2 * m
             d1 == Swap(d, j1, k1)
             d2 == IF ispow4
                   THEN Swap(Swap(Swap(d1, j1 + m, k1 + m2),
                                  j1 + m + m, k1 + m2 - m),
                             j1 + m + m + m, k1 + m2 - m + m2)
                   ELSE Swap(d1, j1 + m, k1 + m)
         IN ReindexJ(d2, pattern, m, ispow4, k, j + 1)
    ) : d \in {d_}, pattern \in {pattern_}, m \in {m_}, ispow4 \in {ispow4_}, k \in {k_}, j \in {j_}})

RECURSIVE ReindexK(_, _, _, _, _)
ReindexK(d_, pattern_, m_, ispow4_, k_) == Only({(
    IF k >= m THEN d
    ELSE LET d1 == ReindexJ(d, pattern, m, ispow4, k, 0)
             j1 == k + m + pattern[k]
             d2 == IF ispow4 THEN Swap(d1, j1, j1 + m) ELSE d1
         IN ReindexK(d2, pattern, m, ispow4, k + 1)
    ) : d \in {d_}, pattern \in {pattern_}, m \in {m_}, ispow4 \in {ispow4_}, k \in {k_}})

reindex(N_, data_) == Only({(
    LET br == BitReverse(N)
        m == Size(br.pattern)
    IN ReindexK(data, br.pattern, m, br.ispow4, IF br.ispow4 THEN 0 ELSE 1)
    ) : N \in {N_}, data \in {data_}})

(* FFT<T, N>::reindex(in, out): the copy fused with the reindexing.        *)
Copy_skipped(out_, in_, k1_) ==
    out_

Copy(out_, in_, k1_) ==
    Only({[out EXCEPT ![k1] = in[k1]] : out \in {out_}, in \in {in_}, k1 \in {k1_}})
Cross(out_, in_, j1_, k1_) ==
    Only({[out EXCEPT ![j1] = in[k1], ![k1] = in[j1]] : out \in {out_}, in \in {in_}, j1 \in {j1_}, k1 \in {k1_}})

RECURSIVE ReindexOutJ(_, _, _, _, _, _, _)
ReindexOutJ(out_, in_, pattern_, m_, ispow4_, k_, j_) == Only({(
    IF j >= k THEN out
    ELSE LET j1 == j + pattern[k]
             k1 == k + pattern[j]
             m2 == 2 * m
             o1 == Cross(out, in, j1, k1)
             o2 == IF ispow4
                   THEN Cross(Cross(Cross(o1, in, j1 + m, k1 + m2),
                                    in, j1 + m + m, k1 + m2 - m),
                              in, j1 + m + m + m, k1 + m2 - m + m2)
                   ELSE Cross(o1, in, j1 + m, k1 + m)
         IN ReindexOutJ(o2, in, pattern, m, ispow4, k, j + 1)
    ) : out \in {out_}, in \in {in_}, pattern \in {pattern_}, m \in {m_}, ispow4 \in {ispow4_}, k \in {k_}, j \in {j_}})

RECURSIVE ReindexOutK(_, _, _, _, _, _)
ReindexOutK(out_, in_, pattern_, m_, ispow4_, k_) == Only({(
    IF k >= m THEN out
    ELSE LET o1 == ReindexOutJ(out, in, pattern, m, ispow4, k, 0)
             k1 == k + pattern[k]
             o2 == IF ispow4
                   THEN Copy(Cross(Copy(o1, in, k1), in, k1 + m, k1 + m + m),
                             in, k1 + m + m + m)
                   ELSE Copy(Copy(o1, in, k1), in, k1 + m)
         IN ReindexOutK(o2, in, pattern, m, ispow4, k + 1)
    ) : out \in {out_}, in \in {in_}, pattern \in {pattern_}, m \in {m_}, ispow4 \in {ispow4_}, k \in {k_}})

reindex_out(N_, in_, out_) == Only({(
    LET br == BitReverse(N)
        m == Size(br.pattern)
    IN IF br.ispow4
       THEN ReindexOutK(out, in, br.pattern, m, TRUE, 0)
       ELSE ReindexOutK(Copy(Copy(out, in, 0), in, m), in, br.pattern, m, FALSE, 1)
    ) : N \in {N_}, in \in {in_}, out \in {out_}})

(* FFT<T, N>::dft / idft, in place and out of place; D is -1 for dft and   *)
(* +1 for idft.  N > 1 and a power of two by the static_assert.            *)
FFT_static_assert(N_) ==
    Only({(N > 1) /\ BitAnd(N, N - 1) = 0 : N \in {N_}})

FFT_dft(N_, D_, data_) ==
    Only({Radix4(N, D, reindex(N, data), 0) : N \in {N_}, D \in {D_}, data \in {data_}})

FFT_dft_out(N_, D_, in_, out_) ==
    Only({Radix4(N, D, reindex_out(N, in, out), 0) : N \in {N_}, D \in {D_}, in \in {in_}, out \in {out_}})

-----------------------------------------------------------------------------
(* exp(2*pi*i * m / 24): every 24th root of unity lies in the ring, as the *)
(* product of an 8th root and a cube root.                                 *)
Root3(m_) == Only({(
    CASE m % 3 = 0 -> Cx(ROne, RZero)
      [] m % 3 = 1 -> Cx(RNeg(RHalf), RSqrt3Half)
      [] OTHER -> Cx(RNeg(RHalf), RNeg(RSqrt3Half))
    ) : m \in {m_}})

Root24(m_) ==
    Only({mul(Root8((3 * m) % 8), Root3((2 * m) % 3)) : m \in {m_}})

(* czt(n, buffer): the chirp transform of the general path.  Its           *)
(* definition is not among the sources; this is Bluestein's algorithm as   *)
(* the specification describes it: multiply by the chirp                   *)
(* exp(-i*pi*k^2/n), convolve with the conjugate chirp through power-of-   *)
(* two transforms of the padded size (the least power of two >= 2n - 1),   *)
(* multiply by the chirp again and keep the first n values.  n divides 12  *)
(* here, so that the chirp lies in the ring.                               *)
RECURSIVE NextPow2(_, _)
NextPow2(m_, k_) ==
    Only({IF m >= k THEN m ELSE NextPow2(2 * m, k) : m \in {m_}, k \in {k_}})

Chirp(n_, k_) ==
    Only({Root24(-(k * k * (12 \div n))) : n \in {n_}, k \in {k_}})

Conj(z_) ==
    Only({Cx(z[1], RNeg(z[2])) : z \in {z_}})

CDivPow2(z_, m_) == Only({(
    LET f == <<1, 0, 0, 0, Log2(m)>>
    IN Cx(RMul(f, z[1]), RMul(f, z[2]))
    ) : z \in {z_}, m \in {m_}})

czt(n_, a_, c_) == Only({(
    Let(NextPow2(1, 2 * n - 1), LAMBDA m :
    Let([k \in 0..(n - 1) |-> Chirp(n, k)], LAMBDA w :
    Let([k \in 0..(m - 1) |-> IF k < n THEN mul(a[k], w[k]) ELSE CZero], LAMBDA u :
    Let([k \in 0..(m - 1) |->
            IF k < n THEN Conj(w[k])
            ELSE IF m - k < n THEN Conj(w[m - k])
            ELSE CZero], LAMBDA v :
    Let(cdft(2 * m, -1, AsReals(u), c), LAMBDA fu :
    Let(cdft(2 * m, -1, AsReals(v), fu.c), LAMBDA fv :
    Let(AsComplex(fu.a), LAMBDA U :
    Let(AsComplex(fv.a), LAMBDA V :
    Let(cdft(2 * m, 1, AsReals([k \in 0..(m - 1) |-> mul(U[k], V[k])]), fv.c),
        LAMBDA fp :
    Let(AsComplex(fp.a), LAMBDA P :
        [a |-> [k \in 0..(n - 1) |-> mul(w[k], CDivPow2(P[k], m))],
         c |-> fp.c]))))))))))
    ) : n \in {n_}, a \in {a_}, c \in {c_}})

-----------------------------------------------------------------------------
(* The definition the transforms are judged against: the DFT by direct     *)
(* summation, X[k] = sum_j x[j] * exp(sgn * 2*pi*i * j*k / N), for N       *)
(* dividing 24.                                                            *)
RECURSIVE CSum(_, _, _)
CSum(f_, lo_, hi_) ==
    Only({IF lo > hi THEN CZero ELSE CAdd(f[lo], CSum(f, lo + 1, hi)) : f \in {f_}, lo \in {lo_}, hi \in {hi_}})

DirectDFT(x_, sgn_) == Only({(
    LET N == Size(x)
    IN [k \in 0..(N - 1) |->
           CSum([j \in 0..(N - 1) |-> mul(x[j], Root24(sgn * j * k * (24 \div N)))],
                0, N - 1)]
    ) : x \in {x_}, sgn \in {sgn_}})

-----------------------------------------------------------------------------
(* The program: a caller with two equal-sized buffers makes library calls  *)
(* on them.  bufA holds the input, bufB whatever it held before.  The      *)
(* library is built with assertions enabled.                               *)

MaxVal == 1
MaxCalls == 2
Sizes == {0, 1, 2, 3, 4, 8}
RealSizes == {1, 2, 4, 8}
CztSizes == {1, 2, 3, 4}
Poison == Cx(RInt(77), RInt(-55))

(* The coefficients of the inputs: 1 .. MaxVal, i and 1 + i.                *)
Coef ==
    {Cx(RInt(u), RZero) : u \in 1..MaxVal} \cup {Cx(RZero, ROne), Cx(ROne, ROne)}

ComplexInputs ==
    {EmptyVec} \cup
    UNION {{[i \in 0..(N - 1) |->
                IF i = j THEN a ELSE IF i = (j + 1) % N THEN b ELSE CZero] :
            j \in 0..(N - 1), a \in Coef, b \in Coef \cup {CZero}} :
           N \in Sizes \ {0}}

RealInputs ==
    UNION {{[i \in 0..(n - 1) |->
                IF i = j THEN RInt(u) ELSE IF i = (j + 1) % n THEN RInt(v) ELSE RZero] :
            j \in 0..(n - 1), u \in (-MaxVal..MaxVal) \ {0}, v \in 0..MaxVal} :
           n \in RealSizes}

(* The other components are not in use while the transforms are followed.  *)
NoWindow == [name |-> "none"]
NoMixer == [name |-> "none"]
NoFmap == [name |-> "none"]
NoRunner == [name |-> "none"]

NoCall ==
    [fn |-> "none", form |-> "none", n |-> 0, isgn |-> 1, ok |-> TRUE,
     data |-> FALSE, again |-> FALSE, check |-> "none"]

Start(inputs) ==
    /\ it = EmptyVec
    /\ wt_n = 0
    /\ wt = EmptyVec
    /\ ct_n = 0
    /\ ct = EmptyVec
    /\ elem \in {"complex", "real"}
    /\ elemOut = elem
    /\ x0 \in inputs[elem]
    /\ bufA = x0
    /\ bufB = [i \in DOMAIN x0 |-> IF elem = "complex" THEN Poison ELSE Poison[1]]
    /\ cur = "A"
    /\ pre = x0
    /\ calls = <<>>
    /\ built = NoEvents
    /\ latest = NoCall
    /\ seen = {}

OthersIdle ==
    /\ win = NoWindow
    /\ mixer = NoMixer
    /\ fmap = NoFmap
    /\ runner = NoRunner

(* No transform is made: the statics stay as constructed.                  *)
TransformsIdle == Start([complex |-> {EmptyVec}, real |-> {}])

Init == Start([complex |-> ComplexInputs, real |-> RealInputs]) /\ OthersIdle

Src == IF cur = "A" THEN bufA ELSE bufB
Dst == IF cur = "A" THEN bufB ELSE bufA

Call(fn, form, n, isgn, ok, data) ==
    [fn |-> fn, form |-> form, n |-> n, isgn |-> isgn, ok |-> ok,
     data |-> data, again |-> (<<fn, n>> \in seen),
     check |-> IF ok THEN "none" ELSE "powcheck"]

(* The callers modelled transform the input and then, at most, transform   *)
(* back at once through the same entry point in the opposite direction.    *)
(* A failed assertion ends the program.                                    *)
MayCall(fn, form, isgn) ==
    IF calls = <<>> THEN latest.ok
    ELSE /\ Len(calls) < MaxCalls
         /\ latest.ok /\ latest.data
         /\ latest.fn = fn /\ latest.form = form /\ latest.isgn = -isgn

SetStatics(c) ==
    /\ it' = c.it
    /\ wt_n' = c.wt_n
    /\ wt' = c.wt
    /\ ct_n' = c.ct_n
    /\ ct' = c.ct
    /\ built' = c.ev

InPlace(result) ==
    /\ IF cur = "A"
       THEN bufA' = result /\ UNCHANGED bufB
       ELSE bufB' = result /\ UNCHANGED bufA
    /\ UNCHANGED cur

OutOfPlace(result) ==
    /\ IF cur = "A"
       THEN bufB' = result /\ UNCHANGED bufA
       ELSE bufA' = result /\ UNCHANGED bufB
    /\ cur' = (IF cur = "A" THEN "B" ELSE "A")

Done(fn, form, isgn) ==
    /\ latest' = Call(fn, form, Size(Src), isgn, TRUE, TRUE)
    /\ calls' = Append(calls, latest')
    /\ seen' = seen \cup {<<fn, Size(Src)>>}
    /\ pre' = Src
    /\ UNCHANGED <<x0, elem, elemOut, win, mixer, fmap, runner>>

(* assert() fails: the program stops with nothing done.                    *)
Rejected(fn, form, isgn) ==
    /\ latest' = Call(fn, form, Size(Src), isgn, FALSE, TRUE)
    /\ calls' = Append(calls, latest')
    /\ pre' = Src
    /\ built' = NoEvents
    /\ UNCHANGED <<it, wt_n, wt, ct_n, ct, bufA, bufB, cur, x0, seen, elem, elemOut,
                   win, mixer, fmap, runner>>

(* FFT::dft(n, data, isgn): the complex transform in place.                *)
Call_dft(isgn) ==
    /\ elem = "complex"
    /\ MayCall("dft", "in", isgn)
    /\ LET n == Size(Src)
       IN IF powcheck(n * 2)
          THEN \E r \in {cdft(n * 2, isgn, AsReals(Src), Statics)} :
                  /\ InPlace(AsComplex(r.a))
                  /\ SetStatics(r.c)
                  /\ Done("dft", "in", isgn)
          ELSE Rejected("dft", "in", isgn)

(* FFT::dft(insize, in, out, isgn): the complex transform out of place.    *)
Call_dft_out(isgn) ==
    /\ elem = "complex"
    /\ MayCall("dft", "out", isgn)
    /\ LET n == Size(Src)
       IN IF powcheck(n * 2)
          THEN \E r \in {cdft_out(n * 2, isgn, AsReals(Src), AsReals(Dst), Statics)} :
                  /\ OutOfPlace(AsComplex(r.a))
                  /\ SetStatics(r.c)
                  /\ Done("dft", "out", isgn)
          ELSE Rejected("dft", "out", isgn)

(* FFT::dft(n, data, isgn) on real data: rdft with the sign reversed.      *)
Call_dft_real(isgn) ==
    /\ elem = "real"
    /\ MayCall("rdft", "in", isgn)
    /\ LET n == Size(Src)
       IN IF powcheck(n)
          THEN \E r \in {rdft(n, -isgn, Src, Statics)} :
                  /\ InPlace(r.a)
                  /\ SetStatics(r.c)
                  /\ Done("rdft", "in", isgn)
          ELSE Rejected("rdft", "in", isgn)

(* FFT<T, N>::dft(data) (D = -1) and FFT<T, N>::idft(data) (D = 1).  A     *)
(* size the static_assert refuses does not compile: there is no call.      *)
Call_FFT_dft(D) ==
    /\ elem = "complex"
    /\ MayCall("FFT", "in", D)
    /\ FFT_static_assert(Size(Src))
    /\ InPlace(FFT_dft(Size(Src), D, Src))
    /\ Done("FFT", "in", D)
    /\ UNCHANGED <<it, wt_n, wt, ct_n, ct, built>>

(* FFT<T, N>::dft(in, out) and FFT<T, N>::idft(in, out).                   *)
Call_FFT_dft_out(D) ==
    /\ elem = "complex"
    /\ MayCall("FFT", "out", D)
    /\ FFT_static_assert(Size(Src))
    /\ OutOfPlace(FFT_dft_out(Size(Src), D, Src, Dst))
    /\ Done("FFT", "out", D)
    /\ UNCHANGED <<it, wt_n, wt, ct_n, ct, built>>

(* FFT::czt(n, buffer), for the sizes whose chirp lies in the ring.        *)
Call_czt ==
    /\ elem = "complex"
    /\ MayCall("czt", "in", -1)
    /\ Size(Src) \in CztSizes
    /\ \E r \in {czt(Size(Src), Src, Statics)} :
          /\ InPlace(r.a)
          /\ SetStatics(r.c)
          /\ Done("czt", "in", -1)

Next ==
    \/ \E isgn \in {-1, 1} : Call_dft(isgn)
    \/ \E isgn \in {-1, 1} : Call_dft_out(isgn)
    \/ \E isgn \in {-1, 1} : Call_dft_real(isgn)
    \/ \E D \in {-1, 1} : Call_FFT_dft(D)
    \/ \E D \in {-1, 1} : Call_FFT_dft_out(D)
    \/ Call_czt

Spec == Init /\ [][Next]_vars

-----------------------------------------------------------------------------
(* The same program among other callers: transforms of other sizes run on  *)
(* buffers this model does not follow, and move only the cached tables     *)
(* and plans, which every caller of FFT_Impl<T> shares.                    *)

PlanSizes == {0, 1, 3, 8, 16}
PlanDataSizes == {1, 3, 8}
PlanRealDataSizes == {2, 8}

PlanInputs ==
    [complex |-> {[i \in 0..(N - 1) |-> IF i < 2 THEN Cx(ROne, ROne) ELSE CZero] :
                  N \in PlanDataSizes},
     real |-> {[i \in 0..(n - 1) |-> IF i < 2 THEN ROne ELSE RZero] :
               n \in PlanRealDataSizes}]

InitPlan == Start(PlanInputs) /\ OthersIdle

(* What cdft(n, isgn, a) does to the statics: makewt when the table is too *)
(* small, then getip through bitrv2 / bitrv2conj when n > 4.               *)
cdft_statics_rebuilding(n_, c_) ==
    IF n_ > 4 THEN getip(n_, makewt(n_ \div 4, c_)) ELSE makewt(n_ \div 4, c_)

cdft_statics(n_, c_) == Only({(
    Let(IF n > (c.wt_n * 4) THEN makewt(n \div 4, c) ELSE c, LAMBDA c1 :
        IF n > 4 THEN getip(n, c1) ELSE c1)
    ) : n \in {n_}, c \in {c_}})

(* What rdft(n, isgn, a) does to the statics: makewt, makect, and getip    *)
(* through bitrv2 when n > 4.                                              *)
rdft_statics(n_, c_) == Only({(
    Let(IF n > (c.wt_n * 4) THEN makewt(n \div 4, c) ELSE c, LAMBDA c1 :
    Let(IF n > (c1.ct_n * 4) THEN makect(n \div 4, c1) ELSE c1, LAMBDA c2 :
        IF n > 4 THEN getip(n, c2) ELSE c2))
    ) : n \in {n_}, c \in {c_}})

OtherDone(fn, n) ==
    /\ latest' = Call(fn, "other", n, 1, TRUE, FALSE)
    /\ seen' = seen \cup {<<fn, n>>}
    /\ UNCHANGED <<bufA, bufB, cur, x0, pre, calls, elem, elemOut, win, mixer, fmap, runner>>

OtherRejected(fn, n) ==
    /\ latest' = Call(fn, "other", n, 1, FALSE, FALSE)
    /\ built' = NoEvents
    /\ UNCHANGED <<it, wt_n, wt, ct_n, ct, bufA, bufB, cur, x0, pre, calls,
                   seen, elem, elemOut, win, mixer, fmap, runner>>

(* FFT::dft(n, data, isgn) by another caller, on n complex values.         *)
Other_dft(n) ==
    /\ latest.ok
    /\ IF powcheck(n * 2)
       THEN \E c \in {cdft_statics(n * 2, Statics)} :
               SetStatics(c) /\ OtherDone("dft", n)
       ELSE OtherRejected("dft", n)

(* FFT::dft(n, data, isgn) by another caller, on n real values.            *)
Other_dft_real(n) ==
    /\ latest.ok
    /\ IF powcheck(n)
       THEN \E c \in {rdft_statics(n, Statics)} :
               SetStatics(c) /\ OtherDone("rdft", n)
       ELSE OtherRejected("rdft", n)

NextPlan ==
    \/ \E isgn \in {-1, 1} : Call_dft(isgn)
    \/ \E isgn \in {-1, 1} : Call_dft_out(isgn)
    \/ \E isgn \in {-1, 1} : Call_dft_real(isgn)
    \/ \E n \in PlanSizes : Other_dft(n)
    \/ \E n \in PlanSizes : Other_dft_real(n)

SpecPlan == InitPlan /\ [][NextPlan]_vars

-----------------------------------------------------------------------------
(* The properties checked of Spec.                                         *)

Times(k, x) == [i \in DOMAIN x |-> CScale(k, x[i])]

ScalarTimes(a, x) ==
    [i \in DOMAIN x |->
        Cx(RSub(RMul(a[1], x[i][1]), RMul(a[2], x[i][2])),
           RAdd(RMul(a[1], x[i][2]), RMul(a[2], x[i][1])))]

Plus(x, y) == [i \in DOMAIN x |-> CAdd(x[i], y[i])]

Unit(N, j) == [i \in 0..(N - 1) |-> IF i = j THEN Cx(ROne, RZero) ELSE CZero]

Complexified(a) == [i \in DOMAIN a |-> Cx(a[i], RZero)]

(* What the in-place form of the latest call's entry point makes of v,     *)
(* with the tables as they now are.                                        *)
InPlaceResult(v) ==
    IF latest.fn = "dft"
    THEN AsComplex(cdft(2 * Size(v), latest.isgn, AsReals(v), Statics).a)
    ELSE FFT_dft(Size(v), latest.isgn, v)

ComplexCall == latest.ok /\ latest.fn \in {"dft", "FFT"}

ForwardThenInverse ==
    /\ Len(calls) = 2
    /\ calls[1].ok /\ calls[2].ok
    /\ calls[1].fn \in {"dft", "FFT"}
    /\ calls[1].isgn = -1 /\ calls[2].isgn = 1

(* C1: the forward complex transform followed by the inverse one gives N   *)
(* times the input, element by element, in place and out of place: the     *)
(* transforms are unnormalised.                                            *)
C1_RoundTrip == ForwardThenInverse => Src = Times(Size(x0), x0)

C1_Witness ==
    /\ ForwardThenInverse
    /\ calls[1].fn = "dft" /\ calls[1].form = "out"
    /\ Size(x0) = 8 /\ x0[3] # CZero /\ x0[4] # CZero
    /\ Src = Times(8, x0)

(* C2: a complex call of direction -1 computes sum x[j] exp(-2 pi i jk/N), *)
(* one of direction +1 the same sum with exp(+2 pi i jk/N), unscaled.      *)
C2_Direction == ComplexCall => Src = DirectDFT(pre, latest.isgn)

C2_Witness ==
    /\ ComplexCall /\ latest.fn = "FFT" /\ latest.isgn = 1 /\ latest.n = 8
    /\ Len(calls) = 1 /\ x0[1] # CZero
    /\ Src # DirectDFT(pre, -1)

(* C3: an out-of-place complex call leaves every element of in as it was   *)
(* and writes to out what the in-place form makes of a copy of in,         *)
(* whatever out held before.                                               *)
C3_OutOfPlace ==
    (ComplexCall /\ latest.form = "out") => Dst = pre /\ Src = InPlaceResult(pre)

C3_Witness ==
    /\ ComplexCall /\ latest.form = "out" /\ latest.fn = "FFT" /\ latest.n = 8
    /\ Len(calls) = 1 /\ Dst = x0 /\ Src # x0
    /\ \A i \in DOMAIN Src : Src[i] # Poison

RealForward == latest.ok /\ latest.fn = "rdft" /\ latest.isgn = -1

(* C7: the in-place real forward transform of n values leaves R[k] in       *)
(* a[2k] for 0 <= k < n/2, I[k] in a[2k+1] for 0 < k < n/2 and R[n/2] in    *)
(* a[1], where R[k] + i I[k] = sum a[j] exp(+2 pi i jk/n).                  *)
C7_RealPacking ==
    (RealForward /\ Len(calls) = 1) =>
        LET n == latest.n
            X == DirectDFT(Complexified(pre), 1)
        IN /\ \A k \in 0..((n \div 2) - 1) : Src[2 * k] = X[k][1]
           /\ \A k \in 1..((n \div 2) - 1) : Src[2 * k + 1] = X[k][2]
           /\ Src[1] = X[n \div 2][1]

C7_Witness ==
    /\ RealForward /\ Len(calls) = 1 /\ latest.n = 8
    /\ Src[3] # RZero /\ Src[3] = DirectDFT(Complexified(x0), 1)[1][2]
    /\ Src[1] # RZero

(* C8: the in-place real forward transform followed by the in-place real   *)
(* inverse one gives n/2 times the input, element by element.              *)
C8_RealRoundTrip ==
    (/\ Len(calls) = 2 /\ calls[1].ok /\ calls[2].ok
     /\ calls[1].fn = "rdft" /\ calls[1].isgn = -1 /\ calls[2].isgn = 1)
    => Src = [i \in DOMAIN x0 |-> RMul(RInt(Size(x0) \div 2), x0[i])]

C8_Witness ==
    /\ Len(calls) = 2 /\ calls[2].ok /\ calls[1].fn = "rdft" /\ calls[1].isgn = -1
    /\ Size(x0) = 8 /\ x0[5] # RZero
    /\ Src[5] = RMul(RInt(4), x0[5])

(* C9: czt(n, buffer) leaves in the buffer the n-point forward DFT         *)
(* sum x[j] exp(-2 pi i jk/n) of what it held, for every n and not only    *)
(* for powers of two, where it equals what dft makes of the same input.    *)
C9_Czt ==
    (latest.ok /\ latest.fn = "czt") =>
        /\ Src = DirectDFT(pre, -1)
        /\ powcheck(2 * latest.n) =>
              Src = AsComplex(cdft(2 * latest.n, -1, AsReals(pre), Statics).a)

C9_Witness ==
    /\ latest.ok /\ latest.fn = "czt" /\ latest.n = 3
    /\ x0[1] # CZero /\ Src # x0 /\ Src = DirectDFT(x0, -1)

(* C10: the complex transforms are linear over the complex numbers: the    *)
(* transform of a x + b y is a times that of x plus b times that of y.     *)
C10_Linear ==
    (ComplexCall /\ Len(calls) = 1) =>
        \A j \in DOMAIN x0 :
            LET N == Size(x0)
                k == (j + 1) % N
                a == x0[j]
                b == IF k = j THEN CZero ELSE x0[k]
            IN x0 = Plus(ScalarTimes(a, Unit(N, j)), ScalarTimes(b, Unit(N, k)))
               => Src = Plus(ScalarTimes(a, InPlaceResult(Unit(N, j))),
                             ScalarTimes(b, InPlaceResult(Unit(N, k))))

C10_Witness ==
    /\ ComplexCall /\ Len(calls) = 1 /\ latest.n = 8 /\ latest.fn = "dft"
    /\ x0[2] = Cx(RZero, ROne) /\ x0[3] = Cx(ROne, ROne)
    /\ Src = Plus(ScalarTimes(x0[2], InPlaceResult(Unit(8, 2))),
                  ScalarTimes(x0[3], InPlaceResult(Unit(8, 3))))

-----------------------------------------------------------------------------
(* The properties checked of SpecPlan.                                     *)

PowerOfTwo(N) == \E k \in 0..N : Pow2(k) = N

NativeComplexStep == latest' # latest /\ latest'.fn = "dft"

NothingDone ==
    /\ UNCHANGED <<it, wt_n, wt, ct_n, ct, bufA, bufB>>
    /\ built' = NoEvents

(* C4, as amended: a complex call on the native path is rejected by the    *)
(* precondition check whenever its size N is not a power of two or N < 1,  *)
(* and accepted otherwise, N = 1 included; on rejection no table or plan   *)
(* has been built or resized and no buffer element has been modified.      *)
C4_Precondition ==
    [][NativeComplexStep =>
          /\ latest'.ok <=> PowerOfTwo(latest'.n)
          /\ ~latest'.ok => NothingDone]_vars

C4_Witness ==
    /\ latest.fn = "dft" /\ ~latest.ok /\ latest.data /\ latest.n = 3
    /\ wt_n = 4 /\ Size(it) = 5 /\ bufA = x0 /\ <<"dft", 1>> \in seen

(* C4, as the claim has it: rejected whenever N is not a power of two or   *)
(* N <= 1, accepted otherwise, and nothing done on rejection.              *)
C4_Original ==
    [][NativeComplexStep =>
          /\ latest'.ok <=> (latest'.n > 1 /\ PowerOfTwo(latest'.n))
          /\ ~latest'.ok => NothingDone]_vars

Cold == [it |-> EmptyVec, wt_n |-> 0, wt |-> EmptyVec, ct_n |-> 0,
         ct |-> EmptyVec, ev |-> NoEvents]

(* What the latest call, made on these buffers, leaves in its target when  *)
(* it is the first call of the program.                                    *)
ColdResult ==
    IF latest.fn = "rdft" THEN rdft(latest.n, -latest.isgn, pre, Cold).a
    ELSE IF latest.form = "in"
    THEN AsComplex(cdft(2 * latest.n, latest.isgn, AsReals(pre), Cold).a)
    ELSE AsComplex(cdft_out(2 * latest.n, latest.isgn, AsReals(pre), AsReals(pre),
                            Cold).a)

Repeated == latest.ok /\ latest.again /\ latest.fn \in {"dft", "rdft"}

FloatLength == IF latest.fn = "rdft" THEN latest.n ELSE 2 * latest.n

(* C5, as amended: once a transform of a type and size has completed, a    *)
(* later one of the same type and size builds no plan and writes no table  *)
(* entry, and its output is what the first call would have produced; and   *)
(* makewt and makect are not executed again, except by a transform over    *)
(* two values made while the table is still empty, which runs makewt(0)    *)
(* (makect(0)) again and leaves the table empty.                           *)
C5_Idempotent ==
    Repeated =>
        /\ built.plans = {} /\ built.wtw = {} /\ built.ctw = {}
        /\ built.makewt # <<>> =>
              FloatLength = 2 /\ built.makewt = <<0>> /\ wt_n = 0 /\ wt = EmptyVec
        /\ built.makect # <<>> =>
              FloatLength = 2 /\ built.makect = <<0>> /\ ct_n = 0 /\ ct = EmptyVec
        /\ latest.data => Src = ColdResult

C5_Witness ==
    /\ Repeated /\ latest.data /\ latest.fn = "dft" /\ latest.form = "out"
    /\ latest.n = 8 /\ Len(calls) = 1
    /\ built = NoEvents /\ wt_n = 4 /\ Src = ColdResult /\ Src # pre

(* C5, as the claim has it: the later transform executes neither makewt    *)
(* nor makect nor the plan-building branch of getip, and its output is     *)
(* what the first call would have produced.                                *)
C5_Original ==
    Repeated =>
        /\ built.plans = {} /\ built.makewt = <<>> /\ built.makect = <<>>
        /\ latest.data => Src = ColdResult

Entries(v) == 0..(Size(v) - 1)

PlansKept ==
    \A pn \in Entries(it) :
        Size(it[pn]) > 0 => it'[pn] = it[pn] /\ pn \notin built'.plans

(* C6, as amended: a bit-reversal plan, once built, is never written       *)
(* again; the cos/sin table and the cosine table are single tables that a  *)
(* transform larger than they cover resizes and writes again, while a      *)
(* transform they cover writes no entry of them and resizes neither.       *)
C6_Tables ==
    [][(latest' # latest /\ latest'.ok /\ latest'.fn \in {"dft", "rdft"}) =>
          LET n == IF latest'.fn = "rdft" THEN latest'.n ELSE 2 * latest'.n
          IN /\ PlansKept
             /\ n <= 4 * wt_n =>
                   wt' = wt /\ wt_n' = wt_n /\ built'.wtw = {} /\ built'.makewt = <<>>
             /\ (n <= 4 * ct_n \/ latest'.fn = "dft") =>
                   ct' = ct /\ ct_n' = ct_n /\ built'.ctw = {} /\ built'.makect = <<>>
             /\ n > 4 * wt_n => wt_n' = n \div 4 /\ Size(wt') = n \div 4
             /\ (n > 4 * ct_n /\ latest'.fn = "rdft") =>
                   ct_n' = n \div 4 /\ Size(ct') = n \div 4]_vars

C6_Witness ==
    /\ latest.ok /\ latest.fn = "rdft" /\ latest.n = 16 /\ ~latest.again
    /\ <<"rdft", 8>> \in seen
    /\ built.makect = <<4>> /\ {0, 1} \subseteq built.ctw
    /\ built.plans = {4} /\ Size(it[3]) > 0

(* C6, as the claim has it: no entry of a built table is ever written      *)
(* again, and a later transform of larger size neither overwrites nor      *)
(* resizes a table built for a smaller size.                               *)
C6_Original ==
    [][(latest' # latest /\ latest'.ok /\ latest'.fn \in {"dft", "rdft"}) =>
          /\ PlansKept
          /\ built'.wtw \cap Entries(wt) = {}
          /\ built'.ctw \cap Entries(ct) = {}
          /\ Size(wt) > 0 => Size(wt') = Size(wt)
          /\ Size(ct) > 0 => Size(ct') = Size(ct)]_vars

-----------------------------------------------------------------------------
(* The out-of-place wrappers for C-style arrays and STL containers: the    *)
(* two buffers have their own element types and their own lengths.         *)

MaxOut == 8
InSizes == {0, 1, 2, 3, 4, 8}

SizedInputs ==
    [complex |-> {[i \in 0..(N - 1) |-> IF i < 2 THEN Cx(ROne, ROne) ELSE CZero] :
                  N \in InSizes},
     real |-> {[i \in 0..(n - 1) |-> IF i < 2 THEN ROne ELSE RZero] :
               n \in InSizes}]

(* dft(in, out) with two real buffers has no overload to call and does not *)
(* compile.                                                                *)
InitSized ==
    /\ it = EmptyVec
    /\ wt_n = 0
    /\ wt = EmptyVec
    /\ ct_n = 0
    /\ ct = EmptyVec
    /\ elem \in {"complex", "real"}
    /\ elemOut \in {"complex", "real"}
    /\ <<elem, elemOut>> # <<"real", "real">>
    /\ x0 \in SizedInputs[elem]
    /\ bufA = x0
    /\ bufB \in {[i \in 0..(m - 1) |-> IF elemOut = "complex" THEN Poison ELSE Poison[1]] :
                 m \in 0..MaxOut}
    /\ cur = "A"
    /\ pre = x0
    /\ calls = <<>>
    /\ built = NoEvents
    /\ latest = NoCall
    /\ seen = {}
    /\ OthersIdle

(* sizeof(std::complex<T>) in units of sizeof(T).                          *)
SizeOf(e_) == IF e_ = "complex" THEN 2 ELSE 1

size_assert_same_type_only(in_, ein_, out_, eout_) ==
    Size(in_) = Size(out_) /\ ein_ = eout_

(* The assertion of both wrappers: the size of in in bytes equals the     *)
(* size of out in bytes (element count times element size).               *)
size_assert(in_, ein_, out_, eout_) ==
    Size(in_) * SizeOf(ein_) = Size(out_) * SizeOf(eout_)

(* The size assertion fails: the program stops with nothing done.          *)
RejectedSizes(form, isgn) ==
    /\ latest' = [Call("dft", form, Size(Src), isgn, FALSE, TRUE) EXCEPT !.check = "sizes"]
    /\ calls' = Append(calls, latest')
    /\ pre' = Src
    /\ built' = NoEvents
    /\ UNCHANGED <<it, wt_n, wt, ct_n, ct, bufA, bufB, cur, x0, seen, elem, elemOut,
                   win, mixer, fmap, runner>>

(* The overload dft(in.size(), in.data(), out.data(), isgn) resolves to,   *)
(* by the element types: cdft, rdft forward, or rdft inverse.              *)
dft_out(ein_, eout_, isgn_, in_, out_, c_) == Only({(
    IF ein = "complex" /\ eout = "complex"
    THEN Let(cdft_out(Size(in) * 2, isgn, AsReals(in), AsReals(out), c), LAMBDA r :
             [a |-> AsComplex(r.a), c |-> r.c])
    ELSE IF ein = "real"
    THEN Let(rdft_out(Size(in), 1, in, AsReals(out), c), LAMBDA r :
             [a |-> AsComplex(r.a), c |-> r.c])
    ELSE rdft_out(Size(in) * 2, -1, AsReals(in), out, c)
    ) : ein \in {ein_}, eout \in {eout_}, isgn \in {isgn_}, in \in {in_}, out \in {out_}, c \in {c_}})

(* FFT::dft(in, out, isgn) on two arrays (form "arrays") or two containers *)
(* (form "containers"): the size assertion, then the pointer overload.     *)
Call_dft_sized(form, isgn) ==
    /\ calls = <<>>
    /\ IF ~size_assert(bufA, elem, bufB, elemOut)
       THEN RejectedSizes(form, isgn)
       ELSE IF ~powcheck(Size(bufA) * SizeOf(elem))
       THEN Rejected("dft", form, isgn)
       ELSE \E r \in {dft_out(elem, elemOut, isgn, bufA, bufB, Statics)} :
               /\ OutOfPlace(r.a)
               /\ SetStatics(r.c)
               /\ Done("dft", form, isgn)

NextSized ==
    \/ \E isgn \in {-1, 1} : Call_dft_sized("arrays", isgn)
    \/ \E isgn \in {-1, 1} : Call_dft_sized("containers", isgn)

SpecSized == InitSized /\ [][NextSized]_vars

-----------------------------------------------------------------------------
(* The properties checked of SpecSized.                                    *)

Untouched ==
    /\ bufA = x0
    /\ bufB = [i \in DOMAIN bufB |-> IF elemOut = "complex" THEN Poison ELSE Poison[1]]
    /\ Statics = Cold

(* C11, as amended: an out-of-place dft on two containers or two C-style   *)
(* arrays is stopped by the size assertion exactly when the total size of  *)
(* in differs from the total size of out; the assertion comes before every *)
(* write, so out, in and the cached tables are then as they were; and two  *)
(* buffers of the same element type with different element counts are      *)
(* always stopped.  Buffers of equal total size can still be stopped, by   *)
(* powcheck.                                                               *)
C11_SizeCheck ==
    latest.form \in {"arrays", "containers"} =>
        /\ (latest.check = "sizes") <=>
               (Size(bufA) * SizeOf(elem) # Size(bufB) * SizeOf(elemOut))
        /\ latest.check = "sizes" => ~latest.ok /\ Untouched
        /\ (elem = elemOut /\ Size(bufA) # Size(bufB)) => latest.check = "sizes"

C11_Witness ==
    /\ latest.form = "containers"
    /\ latest.check = "sizes"
    /\ elem = "complex" /\ elemOut = "complex"
    /\ Size(bufA) = 4 /\ Size(bufB) = 8

(* C11 as stated: a call is stopped by a precondition check if and only if *)
(* the total sizes differ.                                                 *)
C11_Original ==
    latest.form \in {"arrays", "containers"} =>
        (~latest.ok <=> (Size(bufA) * SizeOf(elem) # Size(bufB) * SizeOf(elemOut)))

-----------------------------------------------------------------------------
(* The window functions of dspp/window.hpp.  The value type is modelled    *)
(* exactly: a rational is the pair <<num, den>> in lowest terms with       *)
(* den > 0; a value that is not rational is a triple <<form, x, y>> naming *)
(* the expression that produced it.                                        *)

Q(n_, d_) == Only({(
    LET sg == IF d < 0 THEN -1 ELSE 1
        g == Gcd(IF n < 0 THEN -n ELSE n, IF d < 0 THEN -d ELSE d)
    IN <<(sg * n) \div g, (sg * d) \div g>>
    ) : n \in {n_}, d \in {d_}})

QZero == <<0, 1>>
QOne == <<1, 1>>
QAdd(x_, y_) == Only({Q(x[1] * y[2] + y[1] * x[2], x[2] * y[2]) : x \in {x_}, y \in {y_}})
QSub(x_, y_) == Only({Q(x[1] * y[2] - y[1] * x[2], x[2] * y[2]) : x \in {x_}, y \in {y_}})
QMul(x_, y_) == Only({(
    LET a == Q(x[1], y[2])
        b == Q(y[1], x[2])
    IN <<a[1] * b[1], a[2] * b[2]>>
    ) : x \in {x_}, y \in {y_}})
QDiv(x_, y_) == Only({QMul(x, Q(y[2], y[1])) : x \in {x_}, y \in {y_}})
QLe(x_, y_) == Only({x[1] * y[2] <= y[1] * x[2] : x \in {x_}, y \in {y_}})

fabs_dropped(x_) ==
    x_

fabs(x_) == Only({IF x[1] < 0 THEN <<-x[1], x[2]>> ELSE x : x \in {x_}})

IsQ(x_) == Only({Len(x) = 2 : x \in {x_}})

(* v *= c for an element v and a coefficient c.                            *)
Scaled(v_, c_) == Only({(
    IF IsQ(c) THEN QMul(v, c)
    ELSE IF v = QOne THEN c
    ELSE <<"v*c", v, c>>
    ) : v \in {v_}, c \in {c_}})

TwiceCos_negated(m_) == Only({(
    CASE r = 0 -> -2
      [] r \in {2, 10} -> -1
      [] r \in {3, 9} -> 0
      [] r \in {4, 8} -> 1
      [] r = 6 -> 2
    ) : r \in {((m_ % 12) + 12) % 12}})

(* 2 * cos(2 * pi * m / 12), for the angles at which it is rational.       *)
TwiceCos(m_) == Only({(
    CASE r = 0 -> 2
      [] r \in {2, 10} -> 1
      [] r \in {3, 9} -> 0
      [] r \in {4, 8} -> -1
      [] r = 6 -> -2
    ) : r \in {((m_ % 12) + 12) % 12}})

WindowLen_always_longer(size_, symm_) ==
    IF ~symm_ THEN size_ + 1 ELSE size_

WindowLen_never_longer(size_, symm_) ==
    size_

(* Tv len = w.size(); bool odd = w.size() & 1; if (!symm && !odd) ++len;   *)
WindowLen(size_, symm_) ==
    IF ~symm_ /\ size_ % 2 = 0 THEN size_ + 1 ELSE size_

rect(w_, symm_) ==
    w_

triang(w_, symm_) == Only({(
    LET len == WindowLen(Size(w), symm)
        midm == Q(len - 1, 2)
        midp == Q(IF ~symm \/ Size(w) % 2 = 1 THEN len + 1 ELSE len, 2)
    IN [n \in DOMAIN w |->
           Scaled(w[n], QSub(QOne, fabs(QDiv(QSub(Q(n, 1), midm), midp))))]
    ) : w \in {w_}, symm \in {symm_}})

bartlett(w_, symm_) == Only({(
    IF Size(w) > 1
    THEN LET len == WindowLen(Size(w), symm)
             midm == Q(len - 1, 2)
         IN [n \in DOMAIN w |->
                Scaled(w[n], QSub(QOne, fabs(QDiv(QSub(Q(n, 1), midm), midm))))]
    ELSE w
    ) : w \in {w_}, symm \in {symm_}})

welch(w_, symm_) == Only({(
    LET len == WindowLen(Size(w), symm)
        midm == Q(len - 1, 2)
        midp == Q(len + 1, 2)
    IN [n \in DOMAIN w |->
           Let(QDiv(QSub(Q(n, 1), midm), midp), LAMBDA r :
               Scaled(w[n], QSub(QOne, QMul(r, r))))]
    ) : w \in {w_}, symm \in {symm_}})

parzen(w_, symm_) == Only({(
    LET len == WindowLen(Size(w), symm)
        half == Q(len, 2)
        quad == Q(len, 4)
    IN [n \in DOMAIN w |->
           Let(fabs(QSub(Q(2 * n + 1, 2), half)), LAMBDA i :
           Let(QDiv(i, half), LAMBDA r :
               IF QLe(i, quad)
               THEN Scaled(w[n], QAdd(QSub(QOne, QMul(Q(6, 1), QMul(r, r))),
                                      QMul(Q(6, 1), QMul(r, QMul(r, r)))))
               ELSE Let(QSub(QOne, r), LAMBDA t :
                        Scaled(w[n], QMul(Q(2, 1), QMul(t, QMul(t, t)))))))]
    ) : w \in {w_}, symm \in {symm_}})

(* a[1] - a[2]*cos(2*pi*n/L) + a[3]*cos(4*pi*n/L) - a[4]*cos(6*pi*n/L)     *)
(* + a[5]*cos(8*pi*n/L) with L = len - 1, the constants a in units of      *)
(* 10^-9.                                                                  *)
cosine_sum(w_, symm_, a_) == Only({(
    IF Size(w) > 1
    THEN LET L == WindowLen(Size(w), symm) - 1
         IN [n \in DOMAIN w |->
                Let((12 * n) \div L, LAMBDA m :
                    Scaled(w[n], Q(2 * a[1] - a[2] * TwiceCos(m) + a[3] * TwiceCos(2 * m)
                                   - a[4] * TwiceCos(3 * m) + a[5] * TwiceCos(4 * m),
                                   2000000000)))]
    ELSE w
    ) : w \in {w_}, symm \in {symm_}, a \in {a_}})

hann(w_, symm_) ==
    cosine_sum(w_, symm_, <<500000000, 500000000, 0, 0, 0>>)

blackman(w_, symm_) ==
    cosine_sum(w_, symm_, <<420000000, 500000000, 80000000, 0, 0>>)

nuttall(w_, symm_) ==
    cosine_sum(w_, symm_, <<355768000, 487396000, 144232000, 12604000, 0>>)

blackmannuttall(w_, symm_) ==
    cosine_sum(w_, symm_, <<363581900, 489177500, 136599500, 10641100, 0>>)

blackmanharris(w_, symm_) ==
    cosine_sum(w_, symm_, <<358750000, 488290000, 141280000, 11680000, 0>>)

flattop(w_, symm_) ==
    cosine_sum(w_, symm_, <<215578950, 416631580, 277263158, 83578947, 6947368>>)

hamming(w_, symm_) ==
    cosine_sum(w_, symm_, <<540000000, 460000000, 0, 0, 0>>)

(* (1 - x) * cos(pi*x) + 1/pi * sin(pi*x): rational where the sine is 0,   *)
(* and otherwise the form a + b/pi.                                        *)
bohman(w_, symm_) == Only({(
    IF Size(w) > 1
    THEN LET L == WindowLen(Size(w), symm) - 1
         IN [n \in DOMAIN w |->
                Let(fabs(QSub(Q(2 * n, L), QOne)), LAMBDA x :
                Let((6 * x[1]) \div x[2], LAMBDA m :
                Let(QMul(QSub(QOne, x), Q(TwiceCos(m), 2)), LAMBDA a :
                Let(TwiceCos(m - 3) \div 2, LAMBDA b :
                    Scaled(w[n], IF b = 0 THEN a ELSE <<"a+b/pi", a, b>>)))))]
    ELSE w
    ) : w \in {w_}, symm \in {symm_}})

barthann(w_, symm_) == Only({(
    IF Size(w) > 1
    THEN LET L == WindowLen(Size(w), symm) - 1
         IN [n \in DOMAIN w |->
                Let(fabs(QSub(Q(n, L), Q(1, 2))), LAMBDA fac :
                    Scaled(w[n], QAdd(QSub(Q(62, 100), QMul(Q(48, 100), fac)),
                                      QMul(Q(38, 100),
                                           Q(TwiceCos((12 * fac[1]) \div fac[2]), 2)))))]
    ELSE w
    ) : w \in {w_}, symm \in {symm_}})

(* bessel::i0(beta * sqrt(u)) / bessel::i0(beta) with u = 1 - r^2: 1 where *)
(* u = 1, and otherwise a quotient of two values of i0, which are          *)
(* positive.                                                               *)
kaiser(w_, beta_, symm_) == Only({(
    IF Size(w) > 1
    THEN LET alpha == Q(WindowLen(Size(w), symm) - 1, 2)
         IN [n \in DOMAIN w |->
                Let(QDiv(QSub(Q(n, 1), alpha), alpha), LAMBDA r :
                Let(QSub(QOne, QMul(r, r)), LAMBDA u :
                    Scaled(w[n], IF u = QOne THEN QOne
                                 ELSE <<"i0(beta*sqrt(u))/i0(beta)", u, beta>>)))]
    ELSE w
    ) : w \in {w_}, beta \in {beta_}, symm \in {symm_}})

(* exp(-0.5 * (a / len * i)^2): 1 where the exponent is 0, and otherwise   *)
(* a value of exp, which is positive.                                      *)
gaussian(w_, a_, symm_) == Only({(
    IF Size(w) > 1
    THEN LET len == WindowLen(Size(w), symm)
         IN [n \in DOMAIN w |->
                Let(Q(2 * n - (len - 1), 1), LAMBDA i :
                Let(QMul(QDiv(a, Q(len, 1)), i), LAMBDA t :
                Let(QMul(Q(-1, 2), QMul(t, t)), LAMBDA e :
                    Scaled(w[n], IF e = QZero THEN QOne ELSE <<"exp(e)", e, a>>))))]
    ELSE w
    ) : w \in {w_}, a \in {a_}, symm \in {symm_}})

(* The index n of the loop that applies k[n].real() / d in chebyshev.      *)
RECURSIVE ChebyshevIndex(_, _)
ChebyshevIndex(len_, j_) == Only({(
    IF j = 0 THEN len \div 2 + 1
    ELSE IF ChebyshevIndex(len, j - 1) + 1 >= len THEN 0
    ELSE ChebyshevIndex(len, j - 1) + 1
    ) : len \in {len_}, j \in {j_}})

(* chebyshev(w, a): the coefficient is k[n].real() / d, the quotient of    *)
(* two outputs of a transform of len points; it is kept as that form.      *)
chebyshev(w_, a_) == Only({(
    IF Size(w) > 1
    THEN [j \in DOMAIN w |->
             Scaled(w[j], <<"k[n].real()/d", ChebyshevIndex(Size(w), j),
                            IF Size(w) % 2 = 1 THEN 0 ELSE 1>>)]
    ELSE w
    ) : w \in {w_}, a \in {a_}})

Windows ==
    {"rect", "triang", "bartlett", "hann", "welch", "parzen", "bohman", "chebyshev",
     "blackman", "nuttall", "blackmannuttall", "blackmanharris", "flattop",
     "barthann", "hamming", "kaiser", "gaussian"}

(* The call window::<name>(w, symm), the parameters a and beta left at     *)
(* their defaults.                                                         *)
Window(name_, w_, symm_) == Only({(
    CASE name = "rect" -> rect(w, symm)
      [] name = "triang" -> triang(w, symm)
      [] name = "bartlett" -> bartlett(w, symm)
      [] name = "hann" -> hann(w, symm)
      [] name = "welch" -> welch(w, symm)
      [] name = "parzen" -> parzen(w, symm)
      [] name = "bohman" -> bohman(w, symm)
      [] name = "chebyshev" -> chebyshev(w, Q(100, 1))
      [] name = "blackman" -> blackman(w, symm)
      [] name = "nuttall" -> nuttall(w, symm)
      [] name = "blackmannuttall" -> blackmannuttall(w, symm)
      [] name = "blackmanharris" -> blackmanharris(w, symm)
      [] name = "flattop" -> flattop(w, symm)
      [] name = "barthann" -> barthann(w, symm)
      [] name = "hamming" -> hamming(w, symm)
      [] name = "kaiser" -> kaiser(w, Q(10, 1), symm)
      [] name = "gaussian" -> gaussian(w, Q(5, 2), symm)
    ) : name \in {name_}, w \in {w_}, symm \in {symm_}})

(* The calls whose coefficients the value type above holds: the cosines of *)
(* a window are rational when L = len - 1 divides 12 and is not 12 (for    *)
(* bohman, whose sine must be rational too, when L divides 4).  chebyshev  *)
(* has no symm parameter; its coefficients are kept as the reads of k that *)
(* make them, so a read past the end of k stands for whatever value or     *)
(* fault the read gives.                                                   *)
Exact(name_, size_, symm_) == Only({(
    LET L == WindowLen(size, symm) - 1
    IN CASE name \in {"hann", "blackman", "nuttall", "blackmannuttall",
                      "blackmanharris", "flattop", "hamming", "barthann"} ->
                size <= 1 \/ L \in {1, 2, 3, 4, 6}
         [] name = "bohman" -> size <= 1 \/ L \in {1, 2, 4}
         [] name = "chebyshev" -> symm
         [] OTHER -> TRUE
    ) : name \in {name_}, size \in {size_}, symm \in {symm_}})

MaxWin == 7

Filled(size_, v_) == [n \in 0..(size_ - 1) |-> v_]

(* The container before the call: size elements, all 1 (as when the        *)
(* coefficients are asked for) or all 2.                                   *)
InitWindow ==
    /\ TransformsIdle
    /\ mixer = NoMixer
    /\ fmap = NoFmap
    /\ runner = NoRunner
    /\ \E size \in 0..MaxWin, v \in {QOne, Q(2, 1)} :
          win = [name |-> "none", symm |-> TRUE, w0 |-> Filled(size, v),
                 w |-> Filled(size, v)]

Call_window(name, symm) ==
    /\ win.name = "none"
    /\ Exact(name, Size(win.w), symm)
    /\ win' = [win EXCEPT !.name = name, !.symm = symm, !.w = Window(name, win.w, symm)]
    /\ UNCHANGED <<fftvars, mixer, fmap, runner>>

NextWindow ==
    \E name \in Windows, symm \in BOOLEAN : Call_window(name, symm)

SpecWindow == InitWindow /\ [][NextWindow]_vars

-----------------------------------------------------------------------------
(* The properties checked of SpecWindow.                                   *)

Applied == win.name # "none"

(* The call was made on a container full of 1s: win.w holds the window's   *)
(* coefficients.                                                           *)
Coefficients == Applied /\ win.w0 = Filled(Size(win.w0), QOne)

(* exp is positive, and so is a quotient of two values of bessel::i0.      *)
NonZero(x) ==
    IF IsQ(x) THEN x[1] # 0 ELSE x[1] \in {"exp(e)", "i0(beta*sqrt(u))/i0(beta)"}

(* C12: whatever the window function and the symm flag, a container of     *)
(* one element is left as it was: the single coefficient is exactly 1.     *)
C12_SizeOne ==
    (Applied /\ Size(win.w) = 1) => win.w = win.w0

C12_Witness ==
    /\ win.name = "triang" /\ ~win.symm
    /\ Size(win.w) = 1
    /\ win.w0[0] = Q(2, 1)

(* C13: the coefficients of a symmetric window read the same in both       *)
(* directions: w[n] = w[N-1-n] for every n.  chebyshev is left out: its    *)
(* coefficients are outputs of a transform, which this value type does not *)
(* hold.                                                                   *)
C13_Palindromic ==
    (Coefficients /\ win.symm /\ win.name # "chebyshev") =>
        \A n \in DOMAIN win.w : win.w[n] = win.w[Size(win.w) - 1 - n]

C13_Witness ==
    /\ Coefficients /\ win.symm
    /\ win.name = "parzen"
    /\ Size(win.w) = 6
    /\ win.w[0] # win.w[1] /\ win.w[1] # win.w[2]

(* What the periodic window of size N is said to equal: the first N        *)
(* coefficients of the symmetric window of size N + 1.                     *)
TruncatedSymmetric ==
    Exact(win.name, Size(win.w) + 1, TRUE) =>
        \A n \in DOMAIN win.w :
            win.w[n] = Window(win.name, Filled(Size(win.w) + 1, QOne), TRUE)[n]

(* C14, as amended: for every even size N the periodic window holds the    *)
(* first N coefficients of the symmetric window of size N + 1.  chebyshev  *)
(* has no symm flag.                                                       *)
C14_Periodic ==
    (Coefficients /\ ~win.symm /\ win.name # "chebyshev" /\ Size(win.w) % 2 = 0) =>
        TruncatedSymmetric

C14_Witness ==
    /\ Coefficients /\ ~win.symm
    /\ win.name = "welch"
    /\ Size(win.w) = 6

(* C14 as stated: the same for every size N, even and odd.                 *)
C14_Original ==
    (Coefficients /\ ~win.symm /\ win.name # "chebyshev") => TruncatedSymmetric

(* C15, as amended: for N > 1 the symmetric hann, bartlett, blackman,      *)
(* nuttall, bohman and barthann windows have the coefficient 0 at sample   *)
(* 0; blackmannuttall has 0.0003628 there and blackmanharris 0.00006, the  *)
(* sums of their constants; rect, kaiser and gaussian have a coefficient   *)
(* that is not 0.                                                          *)
C15_Endpoint ==
    (Coefficients /\ win.symm /\ Size(win.w) > 1) =>
        /\ win.name \in {"hann", "bartlett", "blackman", "nuttall", "bohman", "barthann"}
               => win.w[0] = QZero
        /\ win.name = "blackmannuttall" => win.w[0] = Q(3628, 10000000)
        /\ win.name = "blackmanharris" => win.w[0] = Q(6, 100000)
        /\ win.name \in {"rect", "kaiser", "gaussian"} => NonZero(win.w[0])

C15_Witness ==
    /\ Coefficients /\ win.symm
    /\ win.name = "blackmanharris"
    /\ Size(win.w) = 5

(* C15 as stated: every member of the Blackman family is 0 at sample 0.    *)
C15_Original ==
    (Coefficients /\ win.symm /\ Size(win.w) > 1) =>
        /\ win.name \in {"hann", "bartlett", "blackman", "nuttall", "blackmannuttall",
                         "blackmanharris", "bohman", "barthann"}
               => win.w[0] = QZero
        /\ win.name \in {"rect", "kaiser", "gaussian"} => NonZero(win.w[0])

(* The coefficient that chebyshev put on element j: the index n of         *)
(* k[n].real() and the index of d = k[0].real() or k[1].real().            *)
ChebyshevRead(j) ==
    IF win.w[j][1] = "v*c" THEN win.w[j][3] ELSE win.w[j]

(* C27: chebyshev on a container of len >= 2 elements reads k, which has   *)
(* len elements, at indices from 0 to len - 1 only: the rotating index n   *)
(* and the index of d.                                                     *)
C27_IndexSafety ==
    (win.name = "chebyshev" /\ Size(win.w) >= 2) =>
        \A j \in DOMAIN win.w :
            /\ ChebyshevRead(j)[2] \in 0..(Size(win.w) - 1)
            /\ ChebyshevRead(j)[3] \in 0..(Size(win.w) - 1)

-----------------------------------------------------------------------------
(* Mixer<Container> of mixer.hpp: a numerically controlled oscillator nco  *)
(* advanced by clk at every sample.  fp_type is the ring of the            *)
(* transforms, which holds cos and sin at the multiples of pi/4, and one   *)
(* more value, NaN, for what 0/0 and cos(inf) give.                        *)

FIXUP_RATE == 15

NaN == <<0, 0, 0, 0, -1>>
CNaN == Cx(NaN, NaN)
IsNaN(z_) == Only({z[1] = NaN \/ z[2] = NaN : z \in {z_}})

(* mul(z, w) on values that may be NaN.                                    *)
MixerMul(z_, w_) == Only({(
    IF IsNaN(z) \/ IsNaN(w) THEN CNaN ELSE mul(z, w)
    ) : z \in {z_}, w \in {w_}})

compute_clk_as_sin_cos(rate_, freq_) ==
    IF rate_ = 0 THEN CNaN
    ELSE Cx(Root8((((8 * freq_) \div rate_) % 8) + 8)[2],
            Root8((((8 * freq_) \div rate_) % 8) + 8)[1])

(* inc = two_pi * _freq / _rate; clk = (cos(inc), sin(inc)), for the rates *)
(* that divide 8 * _freq.  A rate of 0 makes inc NaN or infinite, and cos  *)
(* and sin of either are NaN.                                              *)
compute_clk(rate_, freq_) == Only({(
    IF rate = 0 THEN CNaN
    ELSE Root8((((8 * freq) \div rate) % 8) + 8)
    ) : rate \in {rate_}, freq \in {freq_}})

(* Mixer(rate, freq).                                                      *)
Mixer(rate_, freq_) == Only({(
    [_rate |-> rate, _freq |-> freq, nco |-> Cx(ROne, RZero),
     clk |-> compute_clk(rate, freq)]
    ) : rate \in {rate_}, freq \in {freq_}})

(* gain = 2.0 - (nco.real()^2 + nco.imag()^2); nco = nco * gain.           *)
fixup(nco_) == Only({(
    IF IsNaN(nco) THEN CNaN
    ELSE Let(RSub(RInt(2), RAdd(RMul(nco[1], nco[1]), RMul(nco[2], nco[2]))), LAMBDA gain :
             Cx(RMul(nco[1], gain), RMul(nco[2], gain)))
    ) : nco \in {nco_}})

(* The body of the loop of operator(), for the sample at position s.i.    *)
(* fixups collects the positions at which the correction of nco is made.   *)
MixBody_testing_before_the_increment(s_, clk_) ==
    Let(MixerMul(IF BitAnd(s_.fixup_counter, FIXUP_RATE) = 0 THEN fixup(s_.nco)
                 ELSE s_.nco, clk_), LAMBDA nco2 :
        [data |-> [s_.data EXCEPT ![s_.i] = MixerMul(s_.data[s_.i], nco2)],
         nco |-> nco2, fixup_counter |-> s_.fixup_counter + 1, i |-> s_.i + 1,
         fixups |-> IF BitAnd(s_.fixup_counter, FIXUP_RATE) = 0
                    THEN s_.fixups \cup {s_.i} ELSE s_.fixups])

MixBody(s_, clk_) == Only({(
    Let(BitAnd(s.fixup_counter + 1, FIXUP_RATE) = 0, LAMBDA due :
    Let(IF due THEN fixup(s.nco) ELSE s.nco, LAMBDA nco1 :
    Let(MixerMul(nco1, clk), LAMBDA nco2 :
        [data |-> [s.data EXCEPT ![s.i] = MixerMul(s.data[s.i], nco2)],
         nco |-> nco2, fixup_counter |-> s.fixup_counter + 1, i |-> s.i + 1,
         fixups |-> IF due THEN s.fixups \cup {s.i} ELSE s.fixups])))
    ) : s \in {s_}, clk \in {clk_}})

(* The loop of operator(), for (auto& d : data), over the next k samples:  *)
(* the first half of them, then the others.                                *)
RECURSIVE MixLoop(_, _, _)
MixLoop(s_, clk_, k_) == Only({(
    IF k = 0 THEN s
    ELSE IF k = 1 THEN MixBody(s, clk)
    ELSE Let(MixLoop(s, clk, k \div 2), LAMBDA s1 : MixLoop(s1, clk, k - (k \div 2)))
    ) : s \in {s_}, clk \in {clk_}, k \in {k_}})

rate_without_compute_clk(m_, r_) ==
    [m_ EXCEPT !._rate = r_, !.ret = r_]

(* rate(const fp_type rate).                                               *)
rate(m_, r_) == Only({(
    [m EXCEPT !._rate = r, !.clk = compute_clk(r, m._freq), !.ret = r]
    ) : m \in {m_}, r \in {r_}})

(* freq(const fp_type freq).                                               *)
freq(m_, f_) == Only({(
    [m EXCEPT !._freq = f, !.clk = compute_clk(m._rate, f), !.ret = f]
    ) : m \in {m_}, f \in {f_}})

MaxMixerOps == 3
MaxData == 2
LongData == {16, 17, 33}
Rates == {0, 4, 8}
Freqs == {0, 1, 2}

(* The object after construction, the container it will be applied to,    *)
(* and the history: the value returned last, the operation made last, the  *)
(* number of operations, the <<_rate, _freq>> operator() has run with      *)
(* over a container that is not empty, the positions at which its latest   *)
(* call corrected nco, and the number of samples processed so far.         *)
InitMixer ==
    /\ TransformsIdle
    /\ win = NoWindow
    /\ fmap = NoFmap
    /\ runner = NoRunner
    /\ \E r \in Rates, f \in Freqs, n \in (0..MaxData) \cup LongData, d \in {Cx(RZero, ROne), Cx(ROne, ROne)} :
          mixer = [_rate |-> Mixer(r, f)._rate, _freq |-> Mixer(r, f)._freq,
                   nco |-> Mixer(r, f).nco, clk |-> Mixer(r, f).clk,
                   data |-> Filled(n, d), data0 |-> Filled(n, d),
                   ret |-> 0, op |-> <<"Mixer", r, f>>, ops |-> 0, applied |-> {},
                   fixups |-> {}, samples |-> 0]

MixerStep(m, op) ==
    /\ mixer.ops < MaxMixerOps
    /\ mixer' = [m EXCEPT !.op = op, !.ops = mixer.ops + 1]
    /\ UNCHANGED <<fftvars, win, fmap, runner>>

(* mixer(data).                                                            *)
Call_operator ==
    \E r \in {MixLoop([data |-> mixer.data, nco |-> mixer.nco,
                         fixup_counter |-> FIXUP_RATE, i |-> 0, fixups |-> {}],
                        mixer.clk, Size(mixer.data))} :
        MixerStep([mixer EXCEPT !.data = r.data, !.nco = r.nco,
                                !.fixups = r.fixups,
                                !.samples = @ + Size(mixer.data),
                                !.applied = IF Size(mixer.data) > 0
                                            THEN @ \cup {<<mixer._rate, mixer._freq>>}
                                            ELSE @],
                  <<"operator()">>)

Call_rate(r) == MixerStep(rate(mixer, r), <<"rate", r>>)

Call_freq(f) == MixerStep(freq(mixer, f), <<"freq", f>>)

(* rate() const and freq() const.                                          *)
Call_rate_get == MixerStep([mixer EXCEPT !.ret = mixer._rate], <<"rate">>)

Call_freq_get == MixerStep([mixer EXCEPT !.ret = mixer._freq], <<"freq">>)

NextMixer ==
    \/ Call_operator
    \/ \E r \in Rates : Call_rate(r)
    \/ \E f \in Freqs : Call_freq(f)
    \/ Call_rate_get
    \/ Call_freq_get

SpecMixer == InitMixer /\ [][NextMixer]_vars

-----------------------------------------------------------------------------
(* The properties checked of SpecMixer.                                    *)

(* C16, as amended: as long as operator() has run only with a frequency of *)
(* 0 and a rate that is not 0, whatever the rate, the length of the        *)
(* container and the number of calls, every sample is as it was and nco is *)
(* (1, 0).                                                                 *)
C16_Identity ==
    (mixer.applied \subseteq {<<r, 0>> : r \in Rates \ {0}}) =>
        mixer.data = mixer.data0 /\ mixer.nco = Cx(ROne, RZero)

C16_Witness ==
    /\ mixer.applied = {<<4, 0>>, <<8, 0>>}
    /\ Size(mixer.data) = 2
    /\ mixer.ops = 3

(* C16 as stated: the same for any rate.                                   *)
C16_Original ==
    (mixer.applied \subseteq {<<r, 0>> : r \in Rates}) =>
        mixer.data = mixer.data0 /\ mixer.nco = Cx(ROne, RZero)

Kept(fields) == \A k \in fields : mixer'[k] = mixer[k]

(* C17: rate(r) stores r, sets clk from r and the current _freq and        *)
(* returns r; freq(f) stores f, sets clk from the current _rate and f and  *)
(* returns f; neither moves nco or the other parameter; rate() and freq()  *)
(* return the stored value and change nothing.                             *)
C17_Mutators ==
    [][/\ (mixer'.op[1] = "rate" /\ Len(mixer'.op) = 2) =>
              /\ mixer'._rate = mixer'.op[2]
              /\ mixer'.ret = mixer'.op[2]
              /\ mixer'.clk = compute_clk(mixer'.op[2], mixer._freq)
              /\ Kept({"_freq", "nco", "data"})
       /\ (mixer'.op[1] = "freq" /\ Len(mixer'.op) = 2) =>
              /\ mixer'._freq = mixer'.op[2]
              /\ mixer'.ret = mixer'.op[2]
              /\ mixer'.clk = compute_clk(mixer._rate, mixer'.op[2])
              /\ Kept({"_rate", "nco", "data"})
       /\ mixer'.op = <<"rate">> =>
              mixer'.ret = mixer._rate /\ Kept({"_rate", "_freq", "nco", "clk", "data"})
       /\ mixer'.op = <<"freq">> =>
              mixer'.ret = mixer._freq /\ Kept({"_rate", "_freq", "nco", "clk", "data"})]_vars

C17_Witness ==
    /\ mixer.op = <<"rate", 4>>
    /\ mixer._freq = 1
    /\ mixer.nco = Cx(RZero, ROne)
    /\ mixer.clk = Cx(RZero, ROne)

(* z to the power k, for a z whose eighth power is 1.                      *)
RECURSIVE Power(_, _)
Power(z_, k_) ==
    IF k_ % 8 = 0 THEN Cx(ROne, RZero) ELSE mul(z_, Power(z_, (k_ % 8) - 1))

(* The calls of operator() made so far on a container that is not empty,   *)
(* and the power of clk that the calls together have put on the sample at  *)
(* position i when clk was the same in all of them: the sample is the      *)
(* i + 1 st of every call, and call c starts after c * n samples.          *)
CallsMade == IF Size(mixer.data) = 0 THEN 0 ELSE mixer.samples \div Size(mixer.data)
SeenBy(i) == (CallsMade * (i + 1)) + (Size(mixer.data) * ((CallsMade * (CallsMade - 1)) \div 2))

(* C26: in every call of operator() the correction of nco is made at the   *)
(* positions of the buffer that are multiples of 16 and at no other, in    *)
(* the first call and in every later one; and while every call has run     *)
(* with one clk of modulus 1, nco is clk to the number of samples          *)
(* processed since construction and every sample has been multiplied by    *)
(* nco after nco was advanced: the k-th sample processed by clk to the k.  *)
C26_Schedule ==
    /\ mixer.op = <<"operator()">> =>
           mixer.fixups = {i \in DOMAIN mixer.data : i % (FIXUP_RATE + 1) = 0}
    /\ (mixer.applied \subseteq {<<mixer._rate, mixer._freq>>} /\ mixer._rate # 0) =>
           /\ mixer.nco = Power(mixer.clk, mixer.samples)
           /\ \A i \in DOMAIN mixer.data :
                  mixer.data[i] = mul(mixer.data0[i], Power(mixer.clk, SeenBy(i)))

C26_Witness ==
    /\ mixer.op = <<"operator()">>
    /\ Size(mixer.data) = 17
    /\ mixer.samples = 34
    /\ mixer.fixups = {0, 16}
    /\ mixer.applied = {<<8, 1>>}
    /\ mixer.nco = Power(mixer.clk, 2)
    /\ mixer.nco # Cx(ROne, RZero)

-----------------------------------------------------------------------------
(* Fmap<T> of dspp/util.hpp: a function of the index with a size, which is *)
(* its own iterator.  size_t is modelled with SizeBits bits.               *)

SizeBits == 3
MaxFmapSize == 3
MaxFmapOps == 2
MaxLoops == 2

SizeT == 0..(Pow2(SizeBits) - 1)

(* Fmap(size_t size, std::function<T(size_t)> &&fn).                       *)
Fmap(size_, fn_) ==
    [_fn |-> fn_, _size |-> size_, _index |-> 0]

(* The private Fmap(Fmap *b, size_t index).                                *)
FmapAt(b_, index_) ==
    [_fn |-> b_._fn, _size |-> b_._size, _index |-> index_]

begin_at_the_current_index(m_) ==
    FmapAt(m_, m_._index)

begin(m_) == FmapAt(m_, 0)

end(m_) == FmapAt(m_, m_._size)

(* operator==: the indices alone are compared.                             *)
FmapEq(a_, b_) == a_._index = b_._index

(* operator++ and operator--, in the arithmetic of size_t.                 *)
FmapInc(m_) == [m_ EXCEPT !._index = (@ + 1) % Pow2(SizeBits)]

FmapDec(m_) == [m_ EXCEPT !._index = (@ + Pow2(SizeBits) - 1) % Pow2(SizeBits)]

(* operator* and operator[].                                               *)
FmapDeref(m_) == m_._fn[m_._index]

FmapAtIndex(m_, x_) == m_._fn[x_]

(* The object w after construction; no iteration is running.  it and e are *)
(* the two iterators of a loop, out what the loop has yielded, incs the    *)
(* increments it has made.                                                 *)
InitFmap ==
    /\ TransformsIdle
    /\ win = NoWindow
    /\ mixer = NoMixer
    /\ runner = NoRunner
    /\ \E size \in 0..MaxFmapSize, fn \in {[i \in SizeT |-> i * i + 1], [i \in SizeT |-> 10 - i]} :
          fmap = [w |-> Fmap(size, fn), it |-> Fmap(size, fn), e |-> Fmap(size, fn),
                  out |-> <<>>, incs |-> 0, pc |-> "idle", op |-> <<"Fmap">>, ret |-> 0,
                  ops |-> 0, loops |-> 0]

FmapStep(f) ==
    /\ fmap' = f
    /\ UNCHANGED <<fftvars, win, mixer, runner>>

(* One of ++w, --w, *w, w[x], w.size(), w.index() outside a loop.          *)
FmapOp(f, op) ==
    /\ fmap.pc = "idle"
    /\ fmap.ops < MaxFmapOps
    /\ FmapStep([f EXCEPT !.op = op, !.ops = fmap.ops + 1])

Call_increment == FmapOp([fmap EXCEPT !.w = FmapInc(fmap.w)], <<"++">>)

Call_decrement == FmapOp([fmap EXCEPT !.w = FmapDec(fmap.w)], <<"--">>)

Call_deref == FmapOp([fmap EXCEPT !.ret = FmapDeref(fmap.w)], <<"*">>)

Call_subscript(x) == FmapOp([fmap EXCEPT !.ret = FmapAtIndex(fmap.w, x)], <<"[]", x>>)

Call_size == FmapOp([fmap EXCEPT !.ret = fmap.w._size], <<"size">>)

Call_index == FmapOp([fmap EXCEPT !.ret = fmap.w._index], <<"index">>)

(* for (auto it = c.begin(), e = c.end(); it != e; ++it) out.push_back(    *)
(* *it), where c is the object w or the copy a loop has left in it.        *)
Loop_begin(c) ==
    /\ fmap.pc = "idle"
    /\ fmap.loops < MaxLoops
    /\ FmapStep([fmap EXCEPT !.it = begin(c), !.e = end(c), !.out = <<>>, !.incs = 0,
                             !.pc = "loop", !.op = <<"begin">>, !.loops = @ + 1])

Loop_step ==
    /\ fmap.pc = "loop"
    /\ ~FmapEq(fmap.it, fmap.e)
    /\ FmapStep([fmap EXCEPT !.out = Append(@, FmapDeref(fmap.it)),
                             !.it = FmapInc(fmap.it), !.incs = @ + 1,
                             !.op = <<"*, ++">>])

Loop_end ==
    /\ fmap.pc = "loop"
    /\ FmapEq(fmap.it, fmap.e)
    /\ FmapStep([fmap EXCEPT !.pc = "idle", !.op = <<"end">>])

NextFmap ==
    \/ Call_increment
    \/ Call_decrement
    \/ Call_deref
    \/ \E x \in 0..MaxFmapSize : Call_subscript(x)
    \/ Call_size
    \/ Call_index
    \/ Loop_begin(fmap.w)
    \/ Loop_begin(fmap.it)
    \/ Loop_step
    \/ Loop_end

SpecFmap == InitFmap /\ [][NextFmap]_vars

-----------------------------------------------------------------------------
(* The properties checked of SpecFmap.                                     *)

(* fn(0), ..., fn(k - 1).                                                  *)
Yielded(k) == [i \in 1..k |-> fmap.w._fn[i - 1]]

(* C18: a loop from begin() to end() makes exactly size increments and     *)
(* yields fn(0), ..., fn(size - 1) in that order, nothing when size = 0;   *)
(* begin() starts at index 0 whatever the index of the object or copy it   *)
(* is called on; operator* and operator[] change neither index nor size.   *)
C18_Sequence ==
    [][/\ fmap'.op = <<"begin">> => fmap'.it._index = 0 /\ fmap'.e._index = fmap.w._size
       /\ fmap'.pc = "loop" =>
              /\ fmap'.incs <= fmap.w._size
              /\ fmap'.it._index = fmap'.incs
              /\ fmap'.out = Yielded(fmap'.incs)
       /\ fmap'.op = <<"end">> =>
              fmap'.incs = fmap.w._size /\ fmap'.out = Yielded(fmap.w._size)
       /\ fmap'.op[1] \in {"*", "[]"} => fmap'.w = fmap.w /\ fmap'.it = fmap.it]_vars

C18_Witness ==
    /\ fmap.op = <<"end">>
    /\ fmap.loops = 2
    /\ Len(fmap.out) = 3
    /\ fmap.w._index = 2

-----------------------------------------------------------------------------
(* benchtest: Runner::RunAll of tester.hpp over the registered tests.      *)
(* A test is the pair <<c, t>>: the t-th Info of the c-th test case of     *)
(* Runner::testers.  What SetUpTestCase, SetUp, TestBody, TearDown and     *)
(* TearDownTestCase do is the tests' own code: each of them records        *)
(* nothing ("none"), a failure and goes on ("nonfatal", as ADD_FAILURE),   *)
(* or a failure and returns ("fatal", as FAIL).                            *)

EXIT_SUCCESS == 0
EXIT_FAILURE == 1
(* The test cases, by their place in the order of the map Runner::testers.  *)
Cases == {1, 2}
MaxTests == 2
MaxFailures == 2

Outcomes == {"none", "nonfatal", "fatal"}

HasFatalFailure_never(r_, info_) ==
    FALSE

(* Info::HasFatalFailure, HasNonfatalFailure, HasFailure.                  *)
HasFatalFailure(r_, info_) == r_.fatal_failure_count[info_] # 0

HasNonfatalFailure(r_, info_) == r_.nonfatal_failure_count[info_] # 0

HasFailure_as_HasFatalFailure(r_, info_) ==
    HasFatalFailure(r_, info_)

HasFailure(r_, info_) == HasFatalFailure(r_, info_) \/ HasNonfatalFailure(r_, info_)

(* ResultReporter::ResultReporter: the failure is counted on the Info that *)
(* reporter()->test_info points to.  recorded is the history of it.        *)
Record(r_, f_) == Only({(
    IF f = "fatal"
    THEN [r EXCEPT !.fatal_failure_count[r.test_info] = @ + 1, !.recorded = @ + 1]
    ELSE IF f = "nonfatal"
    THEN [r EXCEPT !.nonfatal_failure_count[r.test_info] = @ + 1, !.recorded = @ + 1]
    ELSE r
    ) : r \in {r_}, f \in {f_}})

(* The log of what ran: the callback or the report, the Info that          *)
(* reporter()->test_info pointed to, and what the callback recorded.       *)
Logged(r_, ev_, f_) ==
    [r_ EXCEPT !.log = Append(@, <<ev_, r_.test_info, f_>>)]

(* DefaultReporter::Fail and Pass: Fail remembers the test for the final   *)
(* report of DefaultReporter::End, Pass only prints.                       *)
Fail(r_) ==
    Logged([r_ EXCEPT !.failures = Append(@, r_.test_info)], "Fail", "none")

Pass(r_) == Logged(r_, "Pass", "none")

AllTests(size_) == {<<c, t>> \in Cases \X (1..MaxTests) : t <= size_[c]}

(* The state when RunAll is entered: the tests have registered themselves. *)
InitRunner ==
    /\ TransformsIdle
    /\ win = NoWindow
    /\ mixer = NoMixer
    /\ fmap = NoFmap
    /\ \E size \in [Cases -> 1..MaxTests] :
          runner = [size |-> size, pc |-> "RunAll", c |-> 1, t |-> 1,
                    test_info |-> <<1, 1>>,
                    fatal_failure_count |-> [i \in AllTests(size) |-> 0],
                    nonfatal_failure_count |-> [i \in AllTests(size) |-> 0],
                    has_failures |-> FALSE, set_up_case_fatal_failure |-> FALSE,
                    failures |-> <<>>, log |-> <<>>, recorded |-> 0, result |-> -1]

RunnerStep(r) ==
    /\ runner' = r
    /\ UNCHANGED <<fftvars, win, mixer, fmap>>

MayRecord(f) == f # "none" => runner.recorded < MaxFailures

(* RunAll up to the loop over the test cases; DefaultReporter::Start       *)
(* clears the list of failed tests.                                        *)
RunAll_enter ==
    /\ runner.pc = "RunAll"
    /\ RunnerStep([runner EXCEPT !.has_failures = FALSE, !.failures = <<>>,
                                 !.pc = "SetUpTestCase"])

(* The head of the loop over the cases, with SetUpTestCase recording f.    *)
Run_SetUpTestCase(f) ==
    /\ runner.pc = "SetUpTestCase"
    /\ MayRecord(f)
    /\ \E r \in {Logged(Record([runner EXCEPT !.test_info = <<runner.c, 1>>], f),
                        "SetUpTestCase", f)} :
          RunnerStep([r EXCEPT !.has_failures = @ \/ HasFailure(r, r.test_info),
                               !.set_up_case_fatal_failure = HasFatalFailure(r, r.test_info),
                               !.t = 1, !.pc = "test"])

AfterTest_leaving_the_case(r_) ==
    [r_ EXCEPT !.pc = "TearDownTestCase"]

(* Where the loop over the tests of a case goes after test t.              *)
AfterTest(r_) ==
    IF r_.t < r_.size[r_.c] THEN [r_ EXCEPT !.t = @ + 1, !.pc = "test"]
    ELSE [r_ EXCEPT !.pc = "TearDownTestCase"]

(* A test of a case whose SetUpTestCase failed fatally: reporter->Fail.    *)
Run_not_running ==
    /\ runner.pc = "test"
    /\ runner.set_up_case_fatal_failure
    /\ RunnerStep(AfterTest(Fail([runner EXCEPT !.test_info = <<runner.c, runner.t>>])))

(* reporter->Run(); CreateFixture(); test->SetUp(), which records f.       *)
Run_SetUp(f) ==
    /\ runner.pc = "test"
    /\ ~runner.set_up_case_fatal_failure
    /\ MayRecord(f)
    /\ \E r \in {Logged(Record(Logged([runner EXCEPT !.test_info = <<runner.c, runner.t>>],
                                      "CreateFixture", "none"), f),
                        "SetUp", f)} :
          RunnerStep([r EXCEPT !.pc = IF ~HasFatalFailure(r, r.test_info)
                                      THEN "TestBody" ELSE "TearDown"])

(* test->TestBody(), which records f.                                      *)
Run_TestBody(f) ==
    /\ runner.pc = "TestBody"
    /\ MayRecord(f)
    /\ RunnerStep([Logged(Record(runner, f), "TestBody", f) EXCEPT !.pc = "TearDown"])

(* test->TearDown(), which records f; then reporter->Fail or Pass.         *)
Run_TearDown(f) ==
    /\ runner.pc = "TearDown"
    /\ MayRecord(f)
    /\ \E r \in {Logged(Record(runner, f), "TearDown", f)} :
          RunnerStep(AfterTest(IF HasFailure(r, r.test_info)
                               THEN Fail([r EXCEPT !.has_failures = TRUE])
                               ELSE Pass(r)))

(* TearDownTestCase, which records f, and the end of the loop over cases.  *)
Run_TearDownTestCase(f) ==
    /\ runner.pc = "TearDownTestCase"
    /\ MayRecord(f)
    /\ \E r \in {Logged(Record(runner, f), "TearDownTestCase", f)} :
          RunnerStep([r EXCEPT !.has_failures = @ \/ HasFailure(r, r.test_info),
                               !.c = IF r.c + 1 \in Cases THEN @ + 1 ELSE @,
                               !.pc = IF r.c + 1 \in Cases THEN "SetUpTestCase" ELSE "End"])

(* reporter->End; if (has_failures) return EXIT_FAILURE; return            *)
(* EXIT_SUCCESS.                                                           *)
RunAll_return ==
    /\ runner.pc = "End"
    /\ RunnerStep([runner EXCEPT !.result = IF runner.has_failures THEN EXIT_FAILURE
                                            ELSE EXIT_SUCCESS,
                                 !.pc = "returned"])

NextRunner ==
    \/ RunAll_enter
    \/ \E f \in Outcomes : Run_SetUpTestCase(f)
    \/ Run_not_running
    \/ \E f \in Outcomes : Run_SetUp(f)
    \/ \E f \in Outcomes : Run_TestBody(f)
    \/ \E f \in Outcomes : Run_TearDown(f)
    \/ \E f \in Outcomes : Run_TearDownTestCase(f)
    \/ RunAll_return

SpecRunner == InitRunner /\ [][NextRunner]_vars

-----------------------------------------------------------------------------
(* The properties checked of SpecRunner.                                   *)

(* The positions of the log where ev ran for the test info.                *)
Ran(ev, info) ==
    {i \in 1..Len(runner.log) : runner.log[i][1] = ev /\ runner.log[i][2] = info}

(* A callback has recorded a failure.                                      *)
FailureRecorded ==
    \E i \in 1..Len(runner.log) : runner.log[i][3] # "none"

(* C19: RunAll returns EXIT_FAILURE if and only if a fatal or a non-fatal  *)
(* failure was recorded while SetUpTestCase, SetUp, TestBody, TearDown or  *)
(* TearDownTestCase ran, and EXIT_SUCCESS otherwise.                       *)
C19_ExitStatus ==
    runner.pc = "returned" =>
        /\ runner.result = EXIT_FAILURE <=> FailureRecorded
        /\ runner.result = EXIT_SUCCESS <=> ~FailureRecorded

C19_Witness ==
    /\ runner.pc = "returned"
    /\ runner.result = EXIT_FAILURE
    /\ \A i \in 1..Len(runner.log) :
           runner.log[i][3] # "none" => runner.log[i][1] = "TearDownTestCase"

(* The test info has been reported.                                        *)
Reported(info) == Ran("Pass", info) \cup Ran("Fail", info) # {}

(* What SetUp recorded for the test info, once it has run.                 *)
SetUpOutcome(info) ==
    IF Ran("SetUp", info) = {} THEN "not run"
    ELSE runner.log[CHOOSE i \in Ran("SetUp", info) : TRUE][3]

(* C20: after a fatal failure in its SetUp, the TestBody of a test is not  *)
(* run, its TearDown is run after the SetUp, and the test is reported by   *)
(* Fail and not by Pass; after a non-fatal failure in SetUp the TestBody   *)
(* is run.                                                                 *)
C20_FatalSetUp ==
    \A info \in AllTests(runner.size) :
        /\ SetUpOutcome(info) = "fatal" =>
               /\ Ran("TestBody", info) = {}
               /\ Ran("Pass", info) = {}
               /\ Reported(info) =>
                      /\ Ran("Fail", info) # {}
                      /\ \E i \in Ran("SetUp", info), j \in Ran("TearDown", info) : i < j
               /\ runner.pc = "returned" => Reported(info)
        /\ (SetUpOutcome(info) = "nonfatal" /\ Reported(info)) =>
               Ran("TestBody", info) # {}

C20_Witness ==
    /\ runner.pc = "returned"
    /\ SetUpOutcome(<<1, 1>>) = "fatal"
    /\ SetUpOutcome(<<2, 1>>) = "nonfatal"

(* What SetUpTestCase of case c recorded, once it has run; it runs with    *)
(* reporter->test_info at the front test of the case.                      *)
SetUpTestCaseOutcome(c) ==
    IF Ran("SetUpTestCase", <<c, 1>>) = {} THEN "not run"
    ELSE runner.log[CHOOSE i \in Ran("SetUpTestCase", <<c, 1>>) : TRUE][3]

(* TearDownTestCase of case c has run: the loop over its tests is over.    *)
CaseOver(c) ==
    \E i \in 1..Len(runner.log) :
        runner.log[i][1] = "TearDownTestCase" /\ runner.log[i][2][1] = c

TestsOf(c) == {info \in AllTests(runner.size) : info[1] = c}

(* C21: after a fatal failure in SetUpTestCase of a case, no test of the   *)
(* case gets a fixture, a SetUp, a TestBody or a TearDown, and each of     *)
(* them is reported by Fail; the tests of a case whose own SetUpTestCase   *)
(* recorded no fatal failure get their fixture and their SetUp whatever    *)
(* happened in the other cases.                                            *)
C21_FatalSetUpTestCase ==
    \A c \in Cases :
        /\ SetUpTestCaseOutcome(c) = "fatal" =>
               \A info \in TestsOf(c) :
                   /\ \A ev \in {"CreateFixture", "SetUp", "TestBody", "TearDown", "Pass"} :
                          Ran(ev, info) = {}
                   /\ CaseOver(c) => Ran("Fail", info) # {}
        /\ (SetUpTestCaseOutcome(c) \in {"none", "nonfatal"} /\ CaseOver(c)) =>
               \A info \in TestsOf(c) :
                   /\ Ran("CreateFixture", info) # {}
                   /\ Ran("SetUp", info) # {}
                   /\ Ran("TearDown", info) # {}

C21_Witness ==
    /\ runner.pc = "returned"
    /\ runner.size[1] = 2
    /\ SetUpTestCaseOutcome(1) = "fatal"
    /\ SetUpTestCaseOutcome(2) = "none"
    /\ Ran("Pass", <<2, 1>>) # {}

(* What ran for case c, in the order of the log.                           *)
CaseTrace(c) ==
    LET of_c(e) == e[2][1] = c
        evs == SelectSeq(runner.log, of_c)
    IN  [i \in 1..Len(evs) |-> evs[i][1]]

(* What ran for the test info, in the order of the log, SetUpTestCase and  *)
(* TearDownTestCase of its case aside.                                     *)
TestTrace(info) ==
    LET of_test(e) == e[2] = info /\ e[1] \notin {"SetUpTestCase", "TearDownTestCase"}
        evs == SelectSeq(runner.log, of_test)
    IN  [i \in 1..Len(evs) |-> evs[i][1]]

(* The life of a test that is run, and of one that is not.                 *)
RunLives ==
    {<<"CreateFixture", "SetUp", "TestBody", "TearDown", report>> :
         report \in {"Pass", "Fail"}}
    \cup {<<"CreateFixture", "SetUp", "TearDown", report>> : report \in {"Pass", "Fail"}}

NotRunLives == {<<"Pass">>, <<"Fail">>}

IsPrefix(s, t) == Len(s) <= Len(t) /\ s = SubSeq(t, 1, Len(s))

(* C22: in one RunAll, SetUpTestCase of a case runs once, before anything  *)
(* else of the case, and TearDownTestCase once, after everything else of   *)
(* it; a test of a case whose SetUpTestCase recorded no fatal failure gets *)
(* one fixture, then one SetUp, then at most one TestBody, then one        *)
(* TearDown; and every test gets exactly one of Pass and Fail.             *)
C22_Lifecycle ==
    /\ \A c \in Cases :
           \E casetrace \in {CaseTrace(c)} :
               /\ casetrace # <<>> => casetrace[1] = "SetUpTestCase"
               /\ \A i \in 2..Len(casetrace) : casetrace[i] # "SetUpTestCase"
               /\ \A i \in 1..(Len(casetrace) - 1) : casetrace[i] # "TearDownTestCase"
               /\ runner.pc = "returned" => (casetrace # <<>> /\ casetrace[Len(casetrace)] = "TearDownTestCase")
    /\ \A info \in AllTests(runner.size) :
           \E testtrace \in {TestTrace(info)} :
               /\ \E life \in RunLives \cup NotRunLives : IsPrefix(testtrace, life)
               /\ CaseOver(info[1]) =>
                      /\ testtrace \in RunLives \cup NotRunLives
                      /\ SetUpTestCaseOutcome(info[1]) # "fatal" => testtrace \in RunLives

C22_Witness ==
    /\ runner.pc = "returned"
    /\ runner.size = <<2, 2>>
    /\ SetUpTestCaseOutcome(1) = "nonfatal"
    /\ Ran("TestBody", <<1, 2>>) # {}
    /\ Ran("Pass", <<1, 2>>) # {}
    /\ Ran("Fail", <<1, 1>>) # {}

(* C30: when RunAll has returned, the list of failed tests that            *)
(* DefaultReporter::End reports is non-empty exactly when the exit status  *)
(* is EXIT_FAILURE, and every failure was recorded on a test that is in    *)
(* that list.                                                              *)
C30_Coherent ==
    runner.pc = "returned" =>
        /\ runner.result = EXIT_FAILURE <=> runner.failures # <<>>
        /\ \A i \in 1..Len(runner.log) :
               runner.log[i][3] # "none" =>
                   \E j \in 1..Len(runner.failures) : runner.failures[j] = runner.log[i][2]

-----------------------------------------------------------------------------
(* The properties of the template engine checked of Spec.                  *)

(* A transform of four values by the template engine.  reindex leaves      *)
(* x[0], x[2], x[1], x[3], and the butterfly writes to data[1] the value   *)
(* (x[0] - x[2]) + direction(x[1] - x[3]): what direction returned is      *)
(* data[1] - (x[0] - x[2]).                                                *)
TemplateOfFour == latest.ok /\ latest.fn = "FFT" /\ latest.n = 4

Rotated == CSub(Src[1], CSub(pre[0], pre[2]))

Unrotated == CSub(pre[1], pre[3])

(* C23: the rotation by 90 degrees of the butterfly takes (x, y) to        *)
(* (y, -x) in the forward transform (direction -1) and to (-y, x) in the   *)
(* inverse transform (direction +1).                                       *)
C23_Rotate90 ==
    TemplateOfFour =>
        Rotated = IF latest.isgn = -1
                  THEN Cx(Unrotated[2], RNeg(Unrotated[1]))
                  ELSE Cx(RNeg(Unrotated[2]), Unrotated[1])

C23_Witness ==
    /\ TemplateOfFour
    /\ latest.isgn = -1
    /\ Unrotated[1] # RZero
    /\ Unrotated[2] # RZero
    /\ Rotated = Cx(Unrotated[2], RNeg(Unrotated[1]))

(* C23 as stated: (x, y) goes to (-y, x) in the forward transform and to   *)
(* (y, -x) in the inverse one.                                             *)
C23_Original ==
    TemplateOfFour =>
        Rotated = IF latest.isgn = -1
                  THEN Cx(RNeg(Unrotated[2]), Unrotated[1])
                  ELSE Cx(Unrotated[2], RNeg(Unrotated[1]))

-----------------------------------------------------------------------------
(* Complex transforms of 2, 4, 8, ... values on buffers that are not       *)
(* followed: what is kept of each call is the power-of-4 flag that its     *)
(* reindexing read and the last stage that its butterfly ran.  The native  *)
(* calls build the shared tables and plans on the way.                     *)

MaxLog2 == 5
MaxStageCalls == 2

StageSizes == {Pow2(k) : k \in 1..MaxLog2}

Flag(b) == IF b THEN "true" ELSE "false"

StageCall(fn, N, isgn, pow4, last) ==
    [fn |-> fn, form |-> "other", n |-> N, isgn |-> isgn, ok |-> TRUE,
     data |-> FALSE, again |-> (<<fn, N>> \in seen), check |-> "none",
     pow4 |-> pow4, last |-> last]

InitStages == TransformsIdle /\ OthersIdle

StageDone(call) ==
    /\ Len(calls) < MaxStageCalls
    /\ latest' = call
    /\ calls' = Append(calls, call)
    /\ seen' = seen \cup {<<call.fn, call.n>>}
    /\ UNCHANGED <<bufA, bufB, cur, x0, pre, elem, elemOut, win, mixer, fmap, runner>>

(* FFT::dft(N, data, isgn): cdft(2N, isgn, a).  bitrv2 and bitrv2conj read *)
(* the flag ip[ip.size()-1] of the plan when 2N > 4; cftfsub and cftbsub   *)
(* end in the radix-4 loop when (l << 2) == n and in the radix-2 loop      *)
(* otherwise.                                                              *)
Stage_dft(N, isgn) ==
    /\ powcheck(N * 2)
    /\ \E c \in {cdft_statics(N * 2, Statics)} :
          /\ SetStatics(c)
          /\ StageDone(StageCall("dft", N, isgn,
                                 IF N * 2 > 4 THEN Flag(PlanPow4(Plan(N * 2, c))) ELSE "none",
                                 IF CftL(N * 2) * 4 = N * 2 THEN "radix4" ELSE "radix2"))

(* FFT<T, N>::dft(data) and idft(data): reindex reads BitReverse<N>::ispow4 *)
(* and the butterfly recurses down to Radix4<T, 1, D> or Radix4<T, 2, D>.  *)
Stage_FFT(N, D) ==
    /\ FFT_static_assert(N)
    /\ StageDone(StageCall("FFT", N, D, Flag(BitReverse(N).ispow4),
                           IF Radix4Base(N) = 1 THEN "radix4" ELSE "radix2"))
    /\ UNCHANGED <<it, wt_n, wt, ct_n, ct, built>>

NextStages ==
    \/ \E N \in StageSizes, isgn \in {-1, 1} : Stage_dft(N, isgn)
    \/ \E N \in StageSizes, D \in {-1, 1} : Stage_FFT(N, D)

SpecStages == InitStages /\ [][NextStages]_vars

IsPowerOf4(N) == \E j \in 0..MaxLog2 : N = Pow2(2 * j)

(* C24: for every transform of N = 2, 4, 8, ... values, the power-of-4     *)
(* flag that the reindexing reads is true exactly when N is a power of 4,  *)
(* and the butterfly ends in a radix-4 stage exactly when N is a power of  *)
(* 4 and in the radix-2 stage otherwise, in the template engine and in     *)
(* the native one.                                                         *)
C24_Convention ==
    \A i \in 1..Len(calls) :
        /\ calls[i].pow4 # "none" => calls[i].pow4 = Flag(IsPowerOf4(calls[i].n))
        /\ calls[i].last = IF IsPowerOf4(calls[i].n) THEN "radix4" ELSE "radix2"

C24_Witness ==
    /\ Len(calls) = 2
    /\ calls[1].fn = "dft" /\ calls[1].n = 16
    /\ calls[1].pow4 = "true" /\ calls[1].last = "radix4"
    /\ calls[2].fn = "FFT" /\ calls[2].n = 8
    /\ calls[2].pow4 = "false" /\ calls[2].last = "radix2"

-----------------------------------------------------------------------------
(* The reindexing on its own: FFT<T, N>::reindex(data) of the template     *)
(* engine and bitrv2(2N, a) of the native one, applied in place to N       *)
(* complex values that are all different.                                  *)

MaxShift == 3
MaxReindexCalls == 2

ReindexInputs ==
    {[i \in 0..(N - 1) |-> Cx(RInt(i + r), RInt(i))] : N \in StageSizes, r \in 0..MaxShift}

InitReindex ==
    /\ Start([complex |-> ReindexInputs, real |-> {}])
    /\ OthersIdle

ReindexDone(fn) ==
    /\ Len(calls) < MaxReindexCalls
    /\ latest' = Call(fn, "in", Size(Src), 1, TRUE, TRUE)
    /\ calls' = Append(calls, latest')
    /\ seen' = seen \cup {<<fn, Size(Src)>>}
    /\ pre' = Src
    /\ UNCHANGED <<x0, elem, elemOut, win, mixer, fmap, runner>>

Apply_reindex ==
    /\ FFT_static_assert(Size(Src))
    /\ InPlace(reindex(Size(Src), Src))
    /\ ReindexDone("reindex")
    /\ UNCHANGED <<it, wt_n, wt, ct_n, ct, built>>

Apply_bitrv2 ==
    /\ \E r \in {bitrv2(2 * Size(Src), AsReals(Src), Statics)} :
          /\ InPlace(AsComplex(r.a))
          /\ SetStatics(r.c)
    /\ ReindexDone("bitrv2")

NextReindex ==
    \/ Apply_reindex
    \/ Apply_bitrv2

SpecReindex == InitReindex /\ [][NextReindex]_vars

(* The reversal of the bits-bit binary representation of i.                *)
RECURSIVE Rev(_, _)
Rev(i, bits) ==
    IF bits = 0 THEN 0 ELSE (i % 2) * Pow2(bits - 1) + Rev(i \div 2, bits - 1)

(* C25: in-place reindexing of N = 2, 4, 8, ... values moves the element   *)
(* at index i to index rev(i), the reversal of the log2(N) bits of i,      *)
(* which lies in 0..N-1: no element is lost or duplicated, and reindexing  *)
(* twice restores the order.                                               *)
C25_BitReversal ==
    LET N == Size(x0)
    IN /\ Size(Src) = N
       /\ \A i \in 0..(N - 1) :
              /\ Rev(i, Log2(N)) \in 0..(N - 1)
              /\ Len(calls) = 1 => Src[Rev(i, Log2(N))] = x0[i]
              /\ Len(calls) = 2 => Src[i] = x0[i]
       /\ Len(calls) = 1 => {Src[i] : i \in 0..(N - 1)} = {x0[i] : i \in 0..(N - 1)}

C25_Witness ==
    /\ Len(calls) = 2
    /\ calls[1].fn = "reindex" /\ calls[2].fn = "bitrv2"
    /\ Size(x0) = 32
    /\ pre[1] = x0[16] /\ pre[12] = x0[6]
    /\ Src = x0

-----------------------------------------------------------------------------
(* The indices at which a transform of n floats reads the shared tables.   *)
(* The buffers are not followed: what is kept of each call is the recorded *)
(* size of wt before and after it and the indices of wt and ct it read.    *)

MaxTableLog2 == 7
MaxTableCalls == 2

TableSizes == {Pow2(k) : k \in 1..MaxTableLog2}

(* k1 += 2; k2 = 2 * k1, at pass number t of a loop, and the reads         *)
(* wt[k1], wt[k1 + 1], wt[k2], wt[k2 + 1], wt[k2 + 2], wt[k2 + 3].         *)
TwiddleReads(t_) ==
    Only({{k1, k1 + 1, 2 * k1, (2 * k1) + 1, (2 * k1) + 2, (2 * k1) + 3} : k1 \in {2 * t_}})

(* cft1st(n, a): wk1r = wt[2]; for (j = 16; j < n; j += 16).               *)
Cft1stReads(n_) ==
    {2} \cup UNION {TwiddleReads(t) : t \in {u \in 1..(n_ \div 16) : 16 * u < n_}}

(* cftmdl(n, l, a): wk1r = wt[2]; m2 = 8 * l;                              *)
(* for (k = m2; k < n; k += m2).                                           *)
CftmdlReads(n_, l_) ==
    {2} \cup UNION {TwiddleReads(t) : t \in {u \in 1..(n_ \div (8 * l_)) : 8 * l_ * u < n_}}

(* The l of the calls cftmdl(n, l, a) of the loop while ((l << 2) < n).    *)
RECURSIVE CftmdlCalls(_, _)
CftmdlCalls(l_, n_) ==
    IF l_ * 4 < n_ THEN {l_} \cup CftmdlCalls(l_ * 4, n_) ELSE {}

(* cftfsub(n, a) and cftbsub(n, a): cft1st and the cftmdl loop when n > 8. *)
CftReads(n_) ==
    IF n_ > 8
    THEN Cft1stReads(n_) \cup UNION {CftmdlReads(n_, l) : l \in CftmdlCalls(8, n_)}
    ELSE {}

(* rftfsub(n, a, nc) and rftbsub(n, a, nc): ks = 2 * nc / m; kk += ks at   *)
(* every pass of for (j = 2; j < m; j += 2); the reads ct[nc - kk] and     *)
(* ct[kk].                                                                 *)
RftReads(n_, nc_) ==
    LET m == n_ \div 2
        ks == (2 * nc_) \div m
    IN UNION {{nc_ - (ks * t), ks * t} : t \in {u \in 1..m : 2 * u < m}}

(* The direction is not kept: it chooses between cftfsub and cftbsub and   *)
(* between rftfsub and rftbsub, which read the tables at the same indices. *)
TableCall(fn, n, before, c, wtr, ctr) ==
    [fn |-> fn, form |-> "other", n |-> n, ok |-> TRUE,
     data |-> FALSE, again |-> (<<fn, n>> \in seen), check |-> "none",
     wt_n0 |-> before, wt_n |-> c.wt_n, wt_size |-> Size(c.wt),
     ct_n |-> c.ct_n, ct_size |-> Size(c.ct), wtr |-> wtr, ctr |-> ctr]

InitTables == TransformsIdle /\ OthersIdle

TableDone(call) ==
    /\ Len(calls) < MaxTableCalls
    /\ latest' = call
    /\ calls' = Append(calls, call)
    /\ seen' = seen \cup {<<call.fn, call.n>>}
    /\ UNCHANGED <<bufA, bufB, cur, x0, pre, elem, elemOut, win, mixer, fmap, runner>>

(* cdft(n, isgn, a): cftfsub or cftbsub when n > 4, cftfsub when n = 4.    *)
Table_cdft(n, isgn) ==
    /\ powcheck(n)
    /\ \E c \in {cdft_statics(n, Statics)} :
          /\ SetStatics(c)
          /\ TableDone(TableCall("cdft", n, wt_n, c, CftReads(n), {}))

(* rdft(n, isgn, a): nc = ct_n after makect; the same as cdft and, when    *)
(* n > 4, rftfsub(n, a, nc) or rftbsub(n, a, nc).                          *)
Table_rdft(n, isgn) ==
    /\ powcheck(n)
    /\ \E c \in {rdft_statics(n, Statics)} :
          /\ SetStatics(c)
          /\ TableDone(TableCall("rdft", n, wt_n, c, CftReads(n),
                           IF n > 4 THEN RftReads(n, c.ct_n) ELSE {}))

NextTables ==
    \/ \E n \in TableSizes, isgn \in {-1, 1} : Table_cdft(n, isgn)
    \/ \E n \in TableSizes, isgn \in {-1, 1} : Table_rdft(n, isgn)

SpecTables == InitTables /\ [][NextTables]_vars

(* C28: over any sequence of cdft and rdft calls of lengths 2, 4, 8, ...   *)
(* in any order, no call leaves wt_n smaller than it found it, wt_n and    *)
(* ct_n are the sizes of wt and ct, and every index at which the call      *)
(* reads wt is below wt_n and every index at which it reads ct is below    *)
(* ct_n.                                                                   *)
C28_TableBounds ==
    /\ wt_n = Size(wt) /\ ct_n = Size(ct)
    /\ \A i \in 1..Len(calls) :
          /\ calls[i].wt_n >= calls[i].wt_n0
          /\ calls[i].wt_n = calls[i].wt_size
          /\ calls[i].ct_n = calls[i].ct_size
          /\ calls[i].wtr \subseteq 0..(calls[i].wt_n - 1)
          /\ calls[i].ctr \subseteq 0..(calls[i].ct_n - 1)

(* A transform of 64 floats after one of 128: the tables stay at 32, and   *)
(* cft1st and cftmdl read wt up to index 15, rftfsub reads ct up to 30.    *)
C28_Witness ==
    /\ Len(calls) = 2
    /\ calls[1].fn = "rdft" /\ calls[1].n = 128 /\ 31 \in calls[1].wtr
    /\ calls[2].fn = "rdft" /\ calls[2].n = 64
    /\ calls[2].wt_n0 = 32 /\ calls[2].wt_n = 32 /\ calls[2].ct_n = 32
    /\ 15 \in calls[2].wtr /\ 30 \in calls[2].ctr

-----------------------------------------------------------------------------
(* The out-of-place real transforms of SpecSized: the latest call went     *)
(* through rdft(n, isgn, a, b), from real to complex (isgn = 1) or from    *)
(* complex to real (isgn = -1).                                            *)
RealOutOfPlace ==
    /\ latest.fn = "dft" /\ latest.ok /\ latest.check = "none"
    /\ elem # elemOut

RdftN == IF elem = "real" THEN Size(pre) ELSE 2 * Size(pre)
RdftIsgn == IF elem = "real" THEN 1 ELSE -1
RdftIn == IF elem = "real" THEN pre ELSE AsReals(pre)
RdftOut == IF elem = "real" THEN AsReals(bufB) ELSE bufB

(* Other contents that the output buffer could have held before the call.  *)
OtherOutputs == {Filled(RdftN, v) : v \in {RZero, ROne, Poison[2]}}

(* C29: what rdft(n, isgn, a, b) leaves in b is what it leaves there from  *)
(* any other initial contents of b, and is what the in-place               *)
(* rdft(n, isgn, a) makes of a copy of a, in both directions.              *)
C29_InputOnly ==
    RealOutOfPlace =>
        /\ \A b \in OtherOutputs : rdft_out(RdftN, RdftIsgn, RdftIn, b, Statics).a = RdftOut
        /\ rdft(RdftN, RdftIsgn, RdftIn, Statics).a = RdftOut

====
